---- MODULE Spec2Model ----
(***************************************************************************)
(* The streaming package of the Anthropic Go SDK: MessageStream, which     *)
(* reads a server-sent-event stream line by line (Next), decodes one Event *)
(* per data line and folds it into the accumulated Message (updateMessage).*)
(*                                                                         *)
(* Text is modelled as a sequence of one-character strings, so that        *)
(* prefixes, suffixes, trimming and concatenation are computed as the Go   *)
(* code computes them.  Go pointers are addresses into the variable heap,  *)
(* address 0 being nil.                                                    *)
(***************************************************************************)
EXTENDS Integers, Sequences, FiniteSets, TLC

----------------------------------------------------------------------------
(* Bounds of the model *)

\* the number of newline-terminated lines the reader delivers in free runs
MaxLines == 4
\* the number of partial_json fragments a payload is cut into
MaxFrags == 3

----------------------------------------------------------------------------
(* Bytes and strings *)

WhiteSpace == {" ", "\t", "\n", "\r"}

Digits == {"0", "1", "2", "3", "4", "5", "6", "7", "8", "9"}

DigitValue(c) ==
  CASE c = "0" -> 0 [] c = "1" -> 1 [] c = "2" -> 2 [] c = "3" -> 3
    [] c = "4" -> 4 [] c = "5" -> 5 [] c = "6" -> 6 [] c = "7" -> 7
    [] c = "8" -> 8 [] OTHER -> 9

\* bytes.HasPrefix / strings.HasPrefix
HasPrefix(s, p) ==
  /\ Len(s) >= Len(p)
  /\ \A i \in 1..Len(p) : s[i] = p[i]

\* strings.HasSuffix
HasSuffix(s, p) ==
  /\ Len(s) >= Len(p)
  /\ \A i \in 1..Len(p) : s[Len(s) - Len(p) + i] = p[i]

\* the slice s[n:]
SliceFrom(s, n) == SubSeq(s, n + 1, Len(s))

RECURSIVE TrimLeft(_)
TrimLeft(s) ==
  IF s # <<>> /\ Head(s) \in WhiteSpace THEN TrimLeft(Tail(s)) ELSE s

RECURSIVE TrimRight(_)
TrimRight(s) ==
  IF s # <<>> /\ s[Len(s)] \in WhiteSpace
    THEN TrimRight(SubSeq(s, 1, Len(s) - 1))
    ELSE s

\* bytes.TrimSpace
TrimSpace(s) == TrimRight(TrimLeft(s))

----------------------------------------------------------------------------
(* encoding/json, as far as the tool-use input needs it: objects, strings  *)
(* without escapes and unsigned integers, with insignificant white space.  *)
(* A decoded value is a record of one shape: t names the kind, n holds a   *)
(* number, s a string and m the members of an object (key -> value).       *)

JNil == [t |-> "nil", n |-> 0, s |-> <<>>, m |-> <<>>]
JNum(n) == [t |-> "num", n |-> n, s |-> <<>>, m |-> <<>>]
JStr(s) == [t |-> "str", n |-> 0, s |-> s, m |-> <<>>]
JObj(m) == [t |-> "obj", n |-> 0, s |-> <<>>, m |-> m]

\* the result of a parsing step: the value and the position after it
PFail == [ok |-> FALSE, val |-> JNil, pos |-> 0]
POk(v, p) == [ok |-> TRUE, val |-> v, pos |-> p]

RECURSIVE SkipSpace(_, _)
SkipSpace(s, i) ==
  IF i <= Len(s) /\ s[i] \in WhiteSpace THEN SkipSpace(s, i + 1) ELSE i

\* the position of the quote closing the string whose text starts at i, 0 if none
RECURSIVE StringEnd(_, _)
StringEnd(s, i) ==
  IF i > Len(s) THEN 0
  ELSE IF s[i] = "\"" THEN i
  ELSE StringEnd(s, i + 1)

ParseString(s, i) ==
  IF i > Len(s) \/ s[i] # "\"" THEN PFail
  ELSE LET e == StringEnd(s, i + 1) IN
       IF e = 0 THEN PFail ELSE POk(JStr(SubSeq(s, i + 1, e - 1)), e + 1)

RECURSIVE ParseDigits(_, _, _)
ParseDigits(s, i, acc) ==
  IF i <= Len(s) /\ s[i] \in Digits
    THEN ParseDigits(s, i + 1, 10 * acc + DigitValue(s[i]))
    ELSE POk(JNum(acc), i)

\* a JSON number: 0, or a digit other than 0 followed by digits
ParseNumber(s, i) ==
  IF i > Len(s) \/ s[i] \notin Digits THEN PFail
  ELSE IF s[i] = "0" THEN POk(JNum(0), i + 1)
  ELSE ParseDigits(s, i, 0)

RECURSIVE ParseValue(_, _)
RECURSIVE ParseMembers(_, _, _)

\* the members of an object from position i (after "{" or ","), added to m;
\* a repeated key keeps its last value, as a Go map does
ParseMembers(s, i, m) ==
  LET k == ParseString(s, SkipSpace(s, i)) IN
  IF ~k.ok THEN PFail
  ELSE LET c == SkipSpace(s, k.pos) IN
       IF c > Len(s) \/ s[c] # ":" THEN PFail
       ELSE LET v == ParseValue(s, c + 1) IN
            IF ~v.ok THEN PFail
            ELSE LET d == SkipSpace(s, v.pos)
                     m2 == (k.val.s :> v.val) @@ m
                 IN IF d > Len(s) THEN PFail
                    ELSE IF s[d] = "}" THEN POk(JObj(m2), d + 1)
                    ELSE IF s[d] = "," THEN ParseMembers(s, d + 1, m2)
                    ELSE PFail

ParseObject(s, i) ==
  LET j == SkipSpace(s, i + 1) IN
  IF j <= Len(s) /\ s[j] = "}" THEN POk(JObj(<<>>), j + 1)
  ELSE ParseMembers(s, i + 1, <<>>)

ParseValue(s, i) ==
  LET j == SkipSpace(s, i) IN
  IF j > Len(s) THEN PFail
  ELSE IF s[j] = "{" THEN ParseObject(s, j)
  ELSE IF s[j] = "\"" THEN ParseString(s, j)
  ELSE ParseNumber(s, j)

\* json.Unmarshal([]byte(jsonStr), &inputObj) with inputObj a
\* map[string]interface{}: ok is err == nil, val the decoded map
JSONUnmarshalMap(s) ==
  LET v == ParseValue(s, 1) IN
  IF v.ok /\ SkipSpace(s, v.pos) = Len(s) + 1 /\ v.val.t = "obj"
    THEN [ok |-> TRUE, val |-> v.val]
    ELSE [ok |-> FALSE, val |-> JNil]

----------------------------------------------------------------------------
(* models.Message, models.ContentBlock and the typed blocks *)

\* a nil pointer
Nil == 0

\* models.ContentBlock: six pointers, each nil or the address of a typed block
EmptyBlock ==
  [TextContent |-> Nil, ImageContent |-> Nil, ToolUseContent |-> Nil,
   ToolResultContent |-> Nil, ThinkingContent |-> Nil,
   RedactedThinkingContent |-> Nil]

\* a typed block on the heap (TextBlock, ToolUseBlock, ThinkingBlock, ...):
\* the fields its struct does not have stay at their zero values
ZeroObject ==
  [Type |-> "", Text |-> <<>>, ID |-> "", Name |-> "", Input |-> JNil,
   Thinking |-> <<>>, Signature |-> <<>>, Data |-> <<>>]

\* models.Usage
ZeroUsage == [InputTokens |-> 0, OutputTokens |-> 0]

\* &models.Message{} of NewMessageStream
ZeroMessage ==
  [ID |-> "", Role |-> "", Model |-> "", Content |-> <<>>,
   StopReason |-> "", Usage |-> ZeroUsage]

----------------------------------------------------------------------------
(* streaming.Event and streaming.Delta.  A pointer field of Event is a     *)
(* sequence: <<>> is nil, <<v>> points to v.                               *)

MessageStartEvent == "message_start"
ContentBlockStartEvent == "content_block_start"
ContentBlockDeltaEvent == "content_block_delta"
ContentBlockStopEvent == "content_block_stop"
MessageDeltaEvent == "message_delta"
MessageStopEvent == "message_stop"

\* var event Event
ZeroEvent ==
  [Type |-> "", Message |-> <<>>, StopReason |-> <<>>, Index |-> <<>>,
   ContentBlock |-> <<>>, Delta |-> <<>>, Usage |-> <<>>]

ZeroDelta ==
  [Type |-> "", Text |-> <<>>, PartialJSON |-> <<>>, Thinking |-> <<>>,
   Signature |-> <<>>]

----------------------------------------------------------------------------
(* ContentBlock.UnmarshalJSON: the "type" member of the JSON object picks  *)
(* the one pointer that is set, to a new typed block holding the members   *)
(* that block's struct declares.  js is the JSON object, a record with the *)
(* members type, text, id, name, input, thinking, signature, data; addr is *)
(* the address of the block allocated.                                     *)

TypedBlock(js) ==
  CASE js.type = "text" ->
         [ZeroObject EXCEPT !.Type = js.type, !.Text = js.text]
    [] js.type = "tool_use" ->
         [ZeroObject EXCEPT !.Type = js.type, !.ID = js.id, !.Name = js.name,
                            !.Input = js.input]
    [] js.type = "thinking" ->
         [ZeroObject EXCEPT !.Type = js.type, !.Thinking = js.thinking,
                            !.Signature = js.signature]
    [] js.type = "redacted_thinking" ->
         [ZeroObject EXCEPT !.Type = js.type, !.Data = js.data]
    [] OTHER -> [ZeroObject EXCEPT !.Type = js.type]

\* the text pointer is set along with the pointer of the block's type
UnmarshalSetsTextToo(js, addr) ==
  CASE js.type = "tool_use" ->
         [EmptyBlock EXCEPT !.TextContent = addr, !.ToolUseContent = addr]
    [] js.type = "thinking" ->
         [EmptyBlock EXCEPT !.TextContent = addr, !.ThinkingContent = addr]
    [] OTHER -> [EmptyBlock EXCEPT !.TextContent = addr]

UnmarshalContentBlock(js, addr) ==
  CASE js.type = "text" -> [EmptyBlock EXCEPT !.TextContent = addr]
    [] js.type = "image" -> [EmptyBlock EXCEPT !.ImageContent = addr]
    [] js.type = "tool_use" -> [EmptyBlock EXCEPT !.ToolUseContent = addr]
    [] js.type = "tool_result" -> [EmptyBlock EXCEPT !.ToolResultContent = addr]
    [] js.type = "thinking" -> [EmptyBlock EXCEPT !.ThinkingContent = addr]
    [] js.type = "redacted_thinking" ->
         [EmptyBlock EXCEPT !.RedactedThinkingContent = addr]
    [] OTHER -> EmptyBlock

\* whether UnmarshalJSON allocates a typed block for this "type"
KnownBlockType(t) ==
  t \in {"text", "image", "tool_use", "tool_result", "thinking",
         "redacted_thinking"}

----------------------------------------------------------------------------
(* A line of the stream.  bytes is the text of the line without its        *)
(* newline; the text of a well-formed JSON document of an event is held as *)
(* the single token JSONDoc, and doc says what that document holds: the    *)
(* members of Event, content_block as the JSON object described above.     *)
(* nl tells whether the line ends in a newline.                            *)

JSONDoc == "{json}"

\* json.Unmarshal(data, &event): ok is err == nil; event is the decoded
\* Event and heap the heap with the typed block UnmarshalJSON allocated
UnmarshalEvent(data, doc, heap) ==
  LET t == TrimSpace(data) IN
  IF t = <<JSONDoc>> THEN
       IF doc.ContentBlock # <<>> THEN
            LET js == doc.ContentBlock[1]
                addr == Len(heap) + 1
            IN IF KnownBlockType(js.type)
                 THEN [ok |-> TRUE,
                       event |-> [doc EXCEPT !.ContentBlock =
                                    <<UnmarshalContentBlock(js, addr)>>],
                       heap |-> Append(heap, TypedBlock(js))]
                 ELSE [ok |-> TRUE,
                       event |-> [doc EXCEPT !.ContentBlock = <<EmptyBlock>>],
                       heap |-> heap]
       ELSE [ok |-> TRUE, event |-> doc, heap |-> heap]
  ELSE IF t = <<"n", "u", "l", "l">> \/ JSONUnmarshalMap(t).ok THEN
       \* null, or an object with no member that Event declares
       [ok |-> TRUE, event |-> ZeroEvent, heap |-> heap]
  ELSE [ok |-> FALSE, event |-> ZeroEvent, heap |-> heap]

----------------------------------------------------------------------------
(* MessageStream.updateMessage.  The result holds the message, the JSON    *)
(* buffers and the heap after the call; panic tells that the call indexed  *)
(* s.message.Content out of range, which ends the program.                 *)

\* s.jsonBuffers[idx] read: a key the map does not hold reads as ""
BufferAt(jsonBuffers, idx) ==
  IF idx \in DOMAIN jsonBuffers THEN jsonBuffers[idx] ELSE <<>>

\* s.jsonBuffers[idx] = v
BufferPut(jsonBuffers, idx, v) ==
  [k \in DOMAIN jsonBuffers \cup {idx} |->
     IF k = idx THEN v ELSE jsonBuffers[k]]

\* the loop runs once too often: len(s.message.Content) <= idx + 1
RECURSIVE GrowThrough(_, _)
GrowThrough(content, idx) ==
  IF Len(content) <= idx + 1 THEN GrowThrough(Append(content, EmptyBlock), idx)
  ELSE content

\* one placeholder is appended, however far the index lies
GrowOnce(content, idx) ==
  IF Len(content) <= idx THEN Append(content, EmptyBlock) ELSE content

\* for len(s.message.Content) <= idx { append(..., models.ContentBlock{}) }
RECURSIVE GrowTo(_, _)
GrowTo(content, idx) ==
  IF Len(content) <= idx THEN GrowTo(Append(content, EmptyBlock), idx)
  ELSE content

\* the input is assigned whether or not the parse succeeded: a text that
\* fails to parse leaves the nil map
ParseIntoAssignsOnFailure(heap, addr, jsonStr) ==
  IF HasPrefix(jsonStr, <<"{">>) /\ HasSuffix(jsonStr, <<"}">>) THEN
       LET r == JSONUnmarshalMap(jsonStr) IN
       [heap EXCEPT ![addr].Input = IF r.ok THEN r.val ELSE JNil]
  ELSE heap

\* the brace check and parse of lines 154-159 and 178-183: the heap after it
ParseInto(heap, addr, jsonStr) ==
  IF HasPrefix(jsonStr, <<"{">>) /\ HasSuffix(jsonStr, <<"}">>) THEN
       LET r == JSONUnmarshalMap(jsonStr) IN
       IF r.ok THEN [heap EXCEPT ![addr].Input = r.val] ELSE heap
  ELSE heap

\* the fragment replaces the text instead of being appended to it
TextReplacedByDelta(text, delta) == delta.Text

\* the fragment is put before the text instead of after it
TextBeforeDelta(text, delta) == delta.Text \o text

\* the signature is appended to, like the thinking text
SignatureAppended(signature, delta) == signature \o delta.Signature

\* line 147: TextContent.Text += event.Delta.Text
TextAfterDelta(text, delta) == text \o delta.Text

\* line 151: s.jsonBuffers[idx] += event.Delta.PartialJSON
BufferAfterDelta(buffer, delta) == buffer \o delta.PartialJSON

\* line 163: ThinkingContent.Thinking += event.Delta.Thinking
ThinkingAfterDelta(thinking, delta) == thinking \o delta.Thinking

\* line 167: ThinkingContent.Signature = event.Delta.Signature
SignatureAfterDelta(signature, delta) == delta.Signature

Unchanged(message, jsonBuffers, heap) ==
  [message |-> message, jsonBuffers |-> jsonBuffers, heap |-> heap,
   panic |-> FALSE]

Panicked(message, jsonBuffers, heap) ==
  [message |-> message, jsonBuffers |-> jsonBuffers, heap |-> heap,
   panic |-> TRUE]

\* the identifier and the model are copied, the role is not
CaseMessageStartKeepsRole(message, jsonBuffers, heap, event) ==
  IF event.Message # <<>> THEN
       [message |-> [message EXCEPT !.ID = event.Message[1].ID,
                                    !.Model = event.Message[1].Model],
        jsonBuffers |-> jsonBuffers, heap |-> heap, panic |-> FALSE]
  ELSE Unchanged(message, jsonBuffers, heap)

CaseMessageStart(message, jsonBuffers, heap, event) ==
  IF event.Message # <<>> THEN
       [message |-> [message EXCEPT !.ID = event.Message[1].ID,
                                    !.Role = event.Message[1].Role,
                                    !.Model = event.Message[1].Model],
        jsonBuffers |-> jsonBuffers, heap |-> heap, panic |-> FALSE]
  ELSE Unchanged(message, jsonBuffers, heap)

\* a buffer is made for the index whatever the variant of the block
CaseContentBlockStartBuffersAll(message, jsonBuffers, heap, event) ==
  IF event.ContentBlock # <<>> /\ event.Index # <<>> THEN
       LET idx == event.Index[1]
           grown == GrowTo(message.Content, idx)
       IN IF idx < 0 THEN Panicked(message, jsonBuffers, heap)
          ELSE [message |-> [message EXCEPT !.Content =
                               [grown EXCEPT ![idx + 1] = event.ContentBlock[1]]],
                jsonBuffers |-> BufferPut(jsonBuffers, idx, <<>>),
                heap |-> heap, panic |-> FALSE]
  ELSE Unchanged(message, jsonBuffers, heap)

\* the buffer of a tool-use index is made empty only when the index has none
CaseContentBlockStartKeepsBuffer(message, jsonBuffers, heap, event) ==
  IF event.ContentBlock # <<>> /\ event.Index # <<>> THEN
       LET idx == event.Index[1]
           grown == GrowTo(message.Content, idx)
       IN IF idx < 0 THEN Panicked(message, jsonBuffers, heap)
          ELSE [message |-> [message EXCEPT !.Content =
                               [grown EXCEPT ![idx + 1] = event.ContentBlock[1]]],
                jsonBuffers |->
                  IF /\ event.ContentBlock[1].ToolUseContent # Nil
                     /\ idx \notin DOMAIN jsonBuffers
                    THEN BufferPut(jsonBuffers, idx, <<>>)
                    ELSE jsonBuffers,
                heap |-> heap, panic |-> FALSE]
  ELSE Unchanged(message, jsonBuffers, heap)

CaseContentBlockStart(message, jsonBuffers, heap, event) ==
  IF event.ContentBlock # <<>> /\ event.Index # <<>> THEN
       LET idx == event.Index[1]
           grown == GrowTo(message.Content, idx)
       IN IF idx < 0 THEN Panicked(message, jsonBuffers, heap)
          ELSE [message |-> [message EXCEPT !.Content =
                               [grown EXCEPT ![idx + 1] = event.ContentBlock[1]]],
                jsonBuffers |->
                  IF event.ContentBlock[1].ToolUseContent # Nil
                    THEN BufferPut(jsonBuffers, idx, <<>>)
                    ELSE jsonBuffers,
                heap |-> heap, panic |-> FALSE]
  ELSE Unchanged(message, jsonBuffers, heap)

\* a fragment of JSON is buffered whatever block the index holds
CaseContentBlockDeltaBuffersAll(message, jsonBuffers, heap, event) ==
  IF /\ event.Delta # <<>>
     /\ event.Index # <<>>
     /\ event.Index[1] \in 0..(Len(message.Content) - 1)
     /\ event.Delta[1].Type = "input_json_delta"
    THEN [message |-> message,
          jsonBuffers |->
            BufferPut(jsonBuffers, event.Index[1],
                      BufferAfterDelta(BufferAt(jsonBuffers, event.Index[1]),
                                       event.Delta[1])),
          heap |-> heap, panic |-> FALSE]
    ELSE Unchanged(message, jsonBuffers, heap)

\* a stop beyond the content grows it with placeholders, as a start does
CaseContentBlockStopGrows(message, jsonBuffers, heap, event) ==
  IF event.Index # <<>> /\ event.Index[1] >= 0
    THEN [message |-> [message EXCEPT !.Content = GrowTo(@, event.Index[1])],
          jsonBuffers |-> jsonBuffers, heap |-> heap, panic |-> FALSE]
    ELSE Unchanged(message, jsonBuffers, heap)

CaseContentBlockDelta(message, jsonBuffers, heap, event) ==
  IF event.Delta # <<>> /\ event.Index # <<>> THEN
       LET idx == event.Index[1]
           delta == event.Delta[1]
           known == delta.Type \in {"text_delta", "input_json_delta",
                                    "thinking_delta", "signature_delta"}
       IN IF idx < Len(message.Content) THEN
               IF ~known THEN Unchanged(message, jsonBuffers, heap)
               ELSE IF idx < 0 THEN Panicked(message, jsonBuffers, heap)
               ELSE LET block == message.Content[idx + 1] IN
                 IF delta.Type = "text_delta" THEN
                      IF block.TextContent # Nil THEN
                           [message |-> message, jsonBuffers |-> jsonBuffers,
                            heap |-> [heap EXCEPT ![block.TextContent].Text =
                                        TextAfterDelta(@, delta)],
                            panic |-> FALSE]
                      ELSE Unchanged(message, jsonBuffers, heap)
                 ELSE IF delta.Type = "input_json_delta" THEN
                      IF block.ToolUseContent # Nil THEN
                           LET jsonStr == BufferAfterDelta(
                                            BufferAt(jsonBuffers, idx), delta)
                           IN [message |-> message,
                               jsonBuffers |-> BufferPut(jsonBuffers, idx, jsonStr),
                               heap |-> ParseInto(heap, block.ToolUseContent,
                                                  jsonStr),
                               panic |-> FALSE]
                      ELSE Unchanged(message, jsonBuffers, heap)
                 ELSE IF delta.Type = "thinking_delta" THEN
                      IF block.ThinkingContent # Nil THEN
                           [message |-> message, jsonBuffers |-> jsonBuffers,
                            heap |-> [heap EXCEPT
                                        ![block.ThinkingContent].Thinking =
                                          ThinkingAfterDelta(@, delta)],
                            panic |-> FALSE]
                      ELSE Unchanged(message, jsonBuffers, heap)
                 ELSE \* signature_delta
                      IF block.ThinkingContent # Nil THEN
                           [message |-> message, jsonBuffers |-> jsonBuffers,
                            heap |-> [heap EXCEPT
                                        ![block.ThinkingContent].Signature =
                                          SignatureAfterDelta(@, delta)],
                            panic |-> FALSE]
                      ELSE Unchanged(message, jsonBuffers, heap)
          ELSE Unchanged(message, jsonBuffers, heap)
  ELSE Unchanged(message, jsonBuffers, heap)

\* the stop parses the buffer of a tool-use block and then empties it
CaseContentBlockStopClearsBuffer(message, jsonBuffers, heap, event) ==
  IF /\ event.Index # <<>>
     /\ event.Index[1] \in 0..(Len(message.Content) - 1)
     /\ message.Content[event.Index[1] + 1].ToolUseContent # Nil
    THEN [message |-> message,
          jsonBuffers |-> BufferPut(jsonBuffers, event.Index[1], <<>>),
          heap |-> ParseInto(heap,
                             message.Content[event.Index[1] + 1].ToolUseContent,
                             BufferAt(jsonBuffers, event.Index[1])),
          panic |-> FALSE]
    ELSE Unchanged(message, jsonBuffers, heap)

\* the stop closes the index: its block is put aside and later deltas find
\* a placeholder
CaseContentBlockStopClosesBlock(message, jsonBuffers, heap, event) ==
  IF /\ event.Index # <<>>
     /\ event.Index[1] \in 0..(Len(message.Content) - 1)
    THEN [message |-> [message EXCEPT !.Content[event.Index[1] + 1] = EmptyBlock],
          jsonBuffers |-> jsonBuffers, heap |-> heap, panic |-> FALSE]
    ELSE Unchanged(message, jsonBuffers, heap)

\* the stop starts the input of a tool-use block over as the empty object
CaseContentBlockStopResets(message, jsonBuffers, heap, event) ==
  IF /\ event.Index # <<>>
     /\ event.Index[1] \in 0..(Len(message.Content) - 1)
     /\ message.Content[event.Index[1] + 1].ToolUseContent # Nil
    THEN [message |-> message, jsonBuffers |-> jsonBuffers,
          heap |-> [heap EXCEPT
                      ![message.Content[event.Index[1] + 1].ToolUseContent].Input
                         = JObj(<<>>)],
          panic |-> FALSE]
    ELSE Unchanged(message, jsonBuffers, heap)

CaseContentBlockStop(message, jsonBuffers, heap, event) ==
  IF event.Index # <<>> THEN
       LET idx == event.Index[1] IN
       IF idx < Len(message.Content) THEN
            IF idx < 0 THEN Panicked(message, jsonBuffers, heap)
            ELSE LET block == message.Content[idx + 1] IN
                 IF block.ToolUseContent # Nil THEN
                      [message |-> message, jsonBuffers |-> jsonBuffers,
                       heap |-> ParseInto(heap, block.ToolUseContent,
                                          BufferAt(jsonBuffers, idx)),
                       panic |-> FALSE]
                 ELSE Unchanged(message, jsonBuffers, heap)
       ELSE Unchanged(message, jsonBuffers, heap)
  ELSE Unchanged(message, jsonBuffers, heap)

\* a field the event does not carry is set to its zero value
CaseMessageStopClearsAbsent(message, jsonBuffers, heap, event) ==
  [message |->
     [message EXCEPT
        !.StopReason = IF event.StopReason # <<>> THEN event.StopReason[1] ELSE "",
        !.Usage = IF event.Usage # <<>> THEN event.Usage[1] ELSE ZeroUsage],
   jsonBuffers |-> jsonBuffers, heap |-> heap, panic |-> FALSE]

CaseMessageStop(message, jsonBuffers, heap, event) ==
  [message |->
     [message EXCEPT
        !.StopReason = IF event.StopReason # <<>> THEN event.StopReason[1] ELSE @,
        !.Usage = IF event.Usage # <<>> THEN event.Usage[1] ELSE @],
   jsonBuffers |-> jsonBuffers, heap |-> heap, panic |-> FALSE]

\* an event of a kind the switch does not know starts the message over
updateMessageUnknownResets(message, jsonBuffers, heap, event) ==
  CASE event.Type = MessageStartEvent ->
         CaseMessageStart(message, jsonBuffers, heap, event)
    [] event.Type = ContentBlockStartEvent ->
         CaseContentBlockStart(message, jsonBuffers, heap, event)
    [] event.Type = ContentBlockDeltaEvent ->
         CaseContentBlockDelta(message, jsonBuffers, heap, event)
    [] event.Type = ContentBlockStopEvent ->
         CaseContentBlockStop(message, jsonBuffers, heap, event)
    [] event.Type = MessageStopEvent ->
         CaseMessageStop(message, jsonBuffers, heap, event)
    [] event.Type = MessageDeltaEvent ->
         Unchanged(message, jsonBuffers, heap)
    [] OTHER -> Unchanged(ZeroMessage, <<>>, heap)

\* a message_delta is folded as a message_stop is
updateMessageFoldsDelta(message, jsonBuffers, heap, event) ==
  CASE event.Type = MessageStartEvent ->
         CaseMessageStart(message, jsonBuffers, heap, event)
    [] event.Type = ContentBlockStartEvent ->
         CaseContentBlockStart(message, jsonBuffers, heap, event)
    [] event.Type = ContentBlockDeltaEvent ->
         CaseContentBlockDelta(message, jsonBuffers, heap, event)
    [] event.Type = ContentBlockStopEvent ->
         CaseContentBlockStop(message, jsonBuffers, heap, event)
    [] event.Type \in {MessageStopEvent, MessageDeltaEvent} ->
         CaseMessageStop(message, jsonBuffers, heap, event)
    [] OTHER -> Unchanged(message, jsonBuffers, heap)

updateMessage(message, jsonBuffers, heap, event) ==
  CASE event.Type = MessageStartEvent ->
         CaseMessageStart(message, jsonBuffers, heap, event)
    [] event.Type = ContentBlockStartEvent ->
         CaseContentBlockStart(message, jsonBuffers, heap, event)
    [] event.Type = ContentBlockDeltaEvent ->
         CaseContentBlockDelta(message, jsonBuffers, heap, event)
    [] event.Type = ContentBlockStopEvent ->
         CaseContentBlockStop(message, jsonBuffers, heap, event)
    [] event.Type = MessageStopEvent ->
         CaseMessageStop(message, jsonBuffers, heap, event)
    [] OTHER -> Unchanged(message, jsonBuffers, heap)

----------------------------------------------------------------------------
(* The lines a stream is made of *)

\* prefix := []byte("data: ")
DataPrefix == <<"d", "a", "t", "a", ":", " ">>

\* the same field name without the space after the colon
DataNoSpace == <<"d", "a", "t", "a", ":">>

NotJSON == <<"{", "n", "o", "t", " ", "j", "s", "o", "n">>

RawLine(bytes) == [bytes |-> bytes, doc |-> ZeroEvent, nl |-> TRUE]

\* data: <json>
DataLine(doc) == [bytes |-> DataPrefix \o <<JSONDoc>>, doc |-> doc, nl |-> TRUE]

\* data:<json>
NoSpaceLine(doc) ==
  [bytes |-> DataNoSpace \o <<JSONDoc>>, doc |-> doc, nl |-> TRUE]

BlankLine == RawLine(<<>>)
EventLine == RawLine(<<"e", "v", "e", "n", "t", ":", " ", "x">>)
BadLine == RawLine(DataPrefix \o NotJSON)
BadNoSpaceLine == RawLine(DataNoSpace \o NotJSON)

\* the line without its newline, as the last bytes of a stream
Unterminated(line) == [line EXCEPT !.nl = FALSE]

(* The JSON documents of events *)

JSBlock(type) ==
  [type |-> type, text |-> <<>>, id |-> "", name |-> "", input |-> JNil,
   thinking |-> <<>>, signature |-> <<>>, data |-> <<>>]
JSText(text) == [JSBlock("text") EXCEPT !.text = text]
JSToolUse(id, name, input) ==
  [JSBlock("tool_use") EXCEPT !.id = id, !.name = name, !.input = input]
JSThinking(thinking, signature) ==
  [JSBlock("thinking") EXCEPT !.thinking = thinking, !.signature = signature]

\* the embedded message holds its own content, as JSON objects of blocks
EvMessageStartWith(id, role, model, content) ==
  [ZeroEvent EXCEPT !.Type = MessageStartEvent,
                    !.Message = <<[ID |-> id, Role |-> role, Model |-> model,
                                   Content |-> content]>>]
EvMessageStart(id, role, model) == EvMessageStartWith(id, role, model, <<>>)
EvBlockStart(idx, js) ==
  [ZeroEvent EXCEPT !.Type = ContentBlockStartEvent, !.Index = <<idx>>,
                    !.ContentBlock = <<js>>]
EvDelta(idx, delta) ==
  [ZeroEvent EXCEPT !.Type = ContentBlockDeltaEvent, !.Index = <<idx>>,
                    !.Delta = <<delta>>]
EvTextDelta(idx, text) ==
  EvDelta(idx, [ZeroDelta EXCEPT !.Type = "text_delta", !.Text = text])
EvJSONDelta(idx, partial) ==
  EvDelta(idx, [ZeroDelta EXCEPT !.Type = "input_json_delta",
                                 !.PartialJSON = partial])
EvThinkingDelta(idx, thinking) ==
  EvDelta(idx, [ZeroDelta EXCEPT !.Type = "thinking_delta",
                                 !.Thinking = thinking])
EvSignatureDelta(idx, signature) ==
  EvDelta(idx, [ZeroDelta EXCEPT !.Type = "signature_delta",
                                 !.Signature = signature])
EvBlockStop(idx) ==
  [ZeroEvent EXCEPT !.Type = ContentBlockStopEvent, !.Index = <<idx>>]
EvMessageStop(reason, usage) ==
  [ZeroEvent EXCEPT !.Type = MessageStopEvent, !.StopReason = reason,
                    !.Usage = usage]
EvMessageDelta(reason, usage) ==
  [ZeroEvent EXCEPT !.Type = MessageDeltaEvent, !.StopReason = reason,
                    !.Usage = usage]
EvPing == [ZeroEvent EXCEPT !.Type = "ping"]

----------------------------------------------------------------------------
(* The streams the model reads.  A free source delivers any lines of its   *)
(* alphabet, MaxLines at most, and may end or fail after any of them; a    *)
(* scripted source delivers the lines of its script and then ends (eof) or *)
(* fails (err).  expect is the object a scripted tool-use payload denotes. *)

FreeSource(name) ==
  [mode |-> "free", name |-> name, script |-> <<>>, end |-> "eof",
   expect |-> JNil]

ScriptSource(name, script, end, expect) ==
  [mode |-> "script", name |-> name, script |-> script, end |-> end,
   expect |-> expect]

M1 == EvMessageStart("m1", "assistant", "")

DecoderAlphabet ==
  {BlankLine, EventLine, DataLine(M1), DataLine(EvPing), NoSpaceLine(M1),
   BadLine, BadNoSpaceLine, Unterminated(DataLine(EvPing))}

\* text blocks at the indices 0 and 1, one started with a text of its own
TextAlphabet ==
  {DataLine(EvBlockStart(0, JSText(<<>>))),
   DataLine(EvBlockStart(0, JSText(<<"H">>))),
   DataLine(EvBlockStart(1, JSText(<<>>))),
   DataLine(EvTextDelta(0, <<"a">>)),
   DataLine(EvTextDelta(0, <<"b">>)),
   DataLine(EvTextDelta(1, <<"c">>)),
   DataLine(EvBlockStop(0))}

\* a thinking block at index 0
ThinkingAlphabet ==
  {DataLine(EvBlockStart(0, JSThinking(<<>>, <<>>))),
   DataLine(EvBlockStart(0, JSThinking(<<"t">>, <<"s">>))),
   DataLine(EvThinkingDelta(0, <<"a">>)),
   DataLine(EvThinkingDelta(0, <<"b">>)),
   DataLine(EvSignatureDelta(0, <<"x">>)),
   DataLine(EvSignatureDelta(0, <<"y">>)),
   DataLine(EvBlockStop(0))}

\* events with and without an index, below, within and beyond the content
IndexAlphabet ==
  {DataLine(EvBlockStart(-1, JSText(<<>>))),
   DataLine(EvBlockStart(1, JSText(<<>>))),
   DataLine([EvBlockStart(0, JSText(<<>>)) EXCEPT !.Index = <<>>]),
   DataLine(EvTextDelta(-1, <<"a">>)),
   DataLine(EvTextDelta(1, <<"a">>)),
   DataLine(EvTextDelta(2, <<"a">>)),
   DataLine(EvDelta(-1, [ZeroDelta EXCEPT !.Type = "citations_delta"])),
   DataLine(EvBlockStop(-1)),
   DataLine(EvBlockStop(2))}

\* events that fold into the message, a block and a buffer, among lines
\* that are skipped, fail to decode or lack their newline
FoldAlphabet ==
  {DataLine(M1),
   DataLine(EvBlockStart(0, JSToolUse("t1", "f", JObj(<<>>)))),
   DataLine(EvJSONDelta(0, <<"{", "}">>)),
   BlankLine, NoSpaceLine(M1), BadLine,
   Unterminated(DataLine(EvJSONDelta(0, <<"{", "}">>)))}

\* blocks of three variants started at indices with gaps below them, on an
\* empty content and on one that holds blocks already
SparseAlphabet ==
  {DataLine(EvBlockStart(0, JSText(<<"H">>))),
   DataLine(EvBlockStart(1, JSThinking(<<"t">>, <<"s">>))),
   DataLine(EvBlockStart(2, JSToolUse("t1", "f", JObj(<<>>)))),
   DataLine(EvBlockStart(3, JSText(<<>>))),
   DataLine(EvTextDelta(0, <<"a">>)),
   DataLine(EvJSONDelta(2, <<"{", "}">>))}

\* the text {"a":1}
TextA1 == <<"{", "\"", "a", "\"", ":", "1", "}">>

\* a tool-use block at index 0 and fragments of its input: braces, a whole
\* object, white space and the empty fragment
ToolAlphabet ==
  {DataLine(EvBlockStart(0, JSToolUse("t1", "f", JObj(<<>>)))),
   DataLine(EvJSONDelta(0, <<"{">>)),
   DataLine(EvJSONDelta(0, <<"}">>)),
   DataLine(EvJSONDelta(0, TextA1)),
   DataLine(EvJSONDelta(0, <<"\n">>)),
   DataLine(EvJSONDelta(0, <<>>)),
   DataLine(EvBlockStop(0))}

\* a text or a thinking block at index 0 (a placeholder when index 1 is
\* started first), a tool-use block at index 1, and deltas of every
\* sub-kind addressed to them
MixedAlphabet ==
  {DataLine(EvBlockStart(0, JSText(<<"H">>))),
   DataLine(EvBlockStart(0, JSThinking(<<"t">>, <<"s">>))),
   DataLine(EvBlockStart(1, JSToolUse("t1", "f", JObj(<<>>)))),
   DataLine(EvTextDelta(0, <<"a">>)),
   DataLine(EvJSONDelta(0, <<"{", "}">>)),
   DataLine(EvThinkingDelta(0, <<"b">>)),
   DataLine(EvSignatureDelta(0, <<"x">>)),
   DataLine(EvTextDelta(1, <<"c">>)),
   DataLine(EvThinkingDelta(1, <<"d">>)),
   DataLine(EvJSONDelta(1, <<"{">>))}

\* a message whose embedded content holds a block
M2 == EvMessageStartWith("m2", "user", "claude", <<JSText(<<"x">>)>>)

Tokens(in, out) == [InputTokens |-> in, OutputTokens |-> out]

\* the events that open and close a message, with and without the fields
\* they may carry, around a tool-use block and its buffer
EnvelopeAlphabet ==
  {DataLine(M1),
   DataLine(M2),
   DataLine([ZeroEvent EXCEPT !.Type = MessageStartEvent]),
   DataLine(EvBlockStart(0, JSToolUse("t1", "f", JObj(<<>>)))),
   DataLine(EvJSONDelta(0, <<"{", "}">>)),
   DataLine(EvMessageStop(<<"end_turn">>, <<Tokens(5, 2)>>)),
   DataLine(EvMessageStop(<<"max_tokens">>, <<>>)),
   DataLine(EvMessageStop(<<>>, <<Tokens(1, 1)>>)),
   DataLine(EvMessageDelta(<<"tool_use">>, <<Tokens(3, 4)>>)),
   DataLine(EvMessageDelta(<<>>, <<>>))}

\* index 0 started and started again, as a tool-use block and as a text
\* block, with fragments and stops before and after; index 1 is started as
\* a tool-use block or never
RestartAlphabet ==
  {DataLine(EvBlockStart(0, JSToolUse("t1", "f", JObj(<<>>)))),
   DataLine(EvBlockStart(0, JSText(<<"H">>))),
   DataLine(EvBlockStart(1, JSToolUse("t2", "g", JObj(<<>>)))),
   DataLine(EvJSONDelta(0, <<"{">>)),
   DataLine(EvJSONDelta(0, <<"}">>)),
   DataLine(EvTextDelta(0, <<"a">>)),
   DataLine(EvBlockStop(0)),
   DataLine(EvBlockStop(1))}

\* starts at the indices 0, 1 and 2, a start that carries an index and no
\* block, one that carries a block and no index, and a delta and a stop
\* addressed beyond every index started
LengthAlphabet ==
  {DataLine(EvBlockStart(0, JSText(<<>>))),
   DataLine(EvBlockStart(1, JSThinking(<<>>, <<>>))),
   DataLine(EvBlockStart(2, JSToolUse("t1", "f", JObj(<<>>)))),
   DataLine([EvBlockStart(3, JSText(<<>>)) EXCEPT !.ContentBlock = <<>>]),
   DataLine([EvBlockStart(3, JSText(<<>>)) EXCEPT !.Index = <<>>]),
   DataLine(EvJSONDelta(2, <<"{", "}">>)),
   DataLine(EvTextDelta(4, <<"a">>)),
   DataLine(EvBlockStop(5))}

CitationsDelta == [ZeroDelta EXCEPT !.Type = "citations_delta"]

\* events of kinds the switch does not know and deltas of a sub-kind it
\* does not know, addressed within, below and beyond the content, around
\* a message with a tool-use block and its buffer
UnknownAlphabet ==
  {DataLine(M1),
   DataLine(EvBlockStart(0, JSToolUse("t1", "f", JObj(<<>>)))),
   DataLine(EvJSONDelta(0, <<"{", "}">>)),
   DataLine(EvPing),
   DataLine([ZeroEvent EXCEPT !.Type = "error"]),
   DataLine(EvDelta(0, CitationsDelta)),
   DataLine(EvDelta(-1, CitationsDelta)),
   DataLine(EvDelta(3, CitationsDelta))}

Alphabet(name) ==
  CASE name = "decoder" -> DecoderAlphabet
    [] name = "unknown" -> UnknownAlphabet
    [] name = "length" -> LengthAlphabet
    [] name = "restart" -> RestartAlphabet
    [] name = "envelope" -> EnvelopeAlphabet
    [] name = "mixed" -> MixedAlphabet
    [] name = "tool" -> ToolAlphabet
    [] name = "sparse" -> SparseAlphabet
    [] name = "fold" -> FoldAlphabet
    [] name = "text" -> TextAlphabet
    [] name = "thinking" -> ThinkingAlphabet
    [] name = "index" -> IndexAlphabet
    [] OTHER -> {}

\* a stream with a blank line, a line of another field and a malformed
\* data line
NoiseScript == <<BlankLine, EventLine, BadLine>>

NoiseSources ==
  {ScriptSource("noise", NoiseScript, "eof", JNil),
   ScriptSource("noise", <<BlankLine>>, "err", JNil)}

DecoderSources == {FreeSource("decoder")}

\* the text scenario: six events, each on a line made by Mk
TextScenario(Mk(_)) ==
  <<Mk(M1),
    Mk(EvBlockStart(0, JSText(<<>>))),
    Mk(EvTextDelta(0, <<"H", "e", "l">>)),
    Mk(EvTextDelta(0, <<"l", "o">>)),
    Mk(EvBlockStop(0)),
    Mk(EvMessageStop(<<"end_turn">>,
                     <<[InputTokens |-> 5, OutputTokens |-> 2]>>))>>

\* the script as a server frames it: "event: x", the data line, a blank line
RECURSIVE Framed(_)
Framed(script) ==
  IF script = <<>> THEN <<>>
  ELSE <<EventLine, Head(script), BlankLine>> \o Framed(Tail(script))

ScenarioSources ==
  {ScriptSource("text", TextScenario(DataLine), "eof", JNil),
   ScriptSource("text", Framed(TextScenario(DataLine)), "eof", JNil),
   ScriptSource("text-nospace", TextScenario(NoSpaceLine), "eof", JNil),
   ScriptSource("text-nospace", Framed(TextScenario(NoSpaceLine)), "eof", JNil),
   ScriptSource("bad", <<DataLine(M1), BadLine, DataLine(EvPing)>>, "eof", JNil),
   ScriptSource("bad-nospace",
                <<DataLine(M1), BadNoSpaceLine, DataLine(EvPing)>>, "eof", JNil)}

\* the ways of cutting s into k fragments, empty ones included
RECURSIVE Splits(_, _)
Splits(s, k) ==
  IF k <= 1 THEN {<<s>>}
  ELSE UNION {{<<SubSeq(s, 1, c)>> \o r :
                 r \in Splits(SubSeq(s, c + 1, Len(s)), k - 1)} :
              c \in 0..Len(s)}

\* JSON texts of objects, each with the object it denotes
PayloadAB ==
  [text |-> <<"{", "\"", "a", "\"", ":", "1", ",", "\"", "b", "\"", ":", "2", "}">>,
   obj |-> JObj((<<"a">> :> JNum(1)) @@ (<<"b">> :> JNum(2)))]
PayloadNested ==
  [text |-> <<"{", "\"", "a", "\"", ":", "{", "}", "}">>,
   obj |-> JObj(<<"a">> :> JObj(<<>>))]
PayloadBrace ==
  [text |-> <<"{", "\"", "a", "\"", ":", "\"", "}", "\"", "}">>,
   obj |-> JObj(<<"a">> :> JStr(<<"}">>))]
PayloadSpaced ==
  [text |-> <<"{", "\"", "a", "\"", ":", "1", "}", "\n">>,
   obj |-> JObj(<<"a">> :> JNum(1))]

Payloads == {PayloadAB, PayloadNested, PayloadBrace, PayloadSpaced}

\* a tool-use block at index 0 whose input arrives in the fragments frags
ToolScript(frags) ==
  <<DataLine(EvBlockStart(0, JSToolUse("t1", "f", JObj(<<>>))))>>
  \o [i \in 1..Len(frags) |-> DataLine(EvJSONDelta(0, frags[i]))]
  \o <<DataLine(EvBlockStop(0))>>

ChunkSourcesOf(p) ==
  {ScriptSource("chunks", ToolScript(frags), "eof", p.obj) :
     frags \in UNION {Splits(p.text, k) : k \in 1..MaxFrags}}

ChunkSources == UNION {ChunkSourcesOf(p) : p \in Payloads}

----------------------------------------------------------------------------
(* The state of a MessageStream and of its caller *)

VARIABLES
  source,        \* the stream behind s.reader
  lines,         \* the lines read from it so far
  ended,         \* the reader has reported io.EOF
  pc,            \* idle: between calls; next: inside Next; panic: crashed
  ret,           \* what the last call of Next returned: none, true, false
  currentEvent,  \* s.currentEvent
  err,           \* s.err
  message,       \* *s.message
  jsonBuffers,   \* s.jsonBuffers
  heap,          \* the typed blocks allocated so far
  yielded,       \* the events of the calls that returned true
  entry,         \* message, buffers, heap and lines read when the last call began
  lastRead       \* what the last ReadBytes returned: none, line, eof, fail

vars ==
  <<source, lines, ended, pc, ret, currentEvent, err, message, jsonBuffers,
    heap, yielded, entry, lastRead>>

\* err == nil
NoErr == ""
\* fmt.Errorf("error reading stream: %w", err)
ReadErr == "error reading stream"
\* fmt.Errorf("error parsing event: %w", err)
ParseErr == "error parsing event"

Snapshot ==
  [message |-> message, jsonBuffers |-> jsonBuffers, heap |-> heap,
   nlines |-> Len(lines)]

\* NewMessageStream
InitWith(sources) ==
  /\ source \in sources
  /\ lines = <<>>
  /\ ended = FALSE
  /\ pc = "idle"
  /\ ret = "none"
  /\ currentEvent = <<>>
  /\ err = NoErr
  /\ message = ZeroMessage
  /\ jsonBuffers = <<>>
  /\ heap = <<>>
  /\ yielded = <<>>
  /\ entry = [message |-> ZeroMessage, jsonBuffers |-> <<>>, heap |-> <<>>,
              nlines |-> 0]
  /\ lastRead = "none"

\* the lines s.reader.ReadBytes('\n') can return next
ReaderLines ==
  IF ended THEN {}
  ELSE IF source.mode = "script" THEN
       IF Len(lines) < Len(source.script)
         THEN {source.script[Len(lines) + 1]}
         ELSE {}
  ELSE IF Len(lines) < MaxLines THEN Alphabet(source.name)
  ELSE {}

AtScriptEnd == source.mode = "script" /\ Len(lines) = Len(source.script)

\* ReadBytes can return io.EOF with no data
CanEnd == ended \/ source.mode = "free" \/ (AtScriptEnd /\ source.end = "eof")

\* ReadBytes can return an error other than io.EOF
CanFail == ~ended /\ (source.mode = "free" \/ (AtScriptEnd /\ source.end = "err"))

\* line = bytes.TrimSpace(line)
Trimmed(line) == TrimSpace(line.bytes)

----------------------------------------------------------------------------
(* MessageStream.Next, one action per way through it.  Call is the caller  *)
(* invoking Next; the recursive calls of lines 81 and 86 leave pc at next. *)

Call ==
  /\ pc = "idle"
  /\ pc' = "next"
  /\ entry' = Snapshot
  /\ UNCHANGED <<source, lines, ended, ret, currentEvent, err, message,
                 jsonBuffers, heap, yielded, lastRead>>

\* the error is forgotten and the call goes on to read
NextOnErrorRetries ==
  /\ pc = "next"
  /\ err # NoErr
  /\ err' = NoErr
  /\ UNCHANGED <<source, lines, ended, pc, ret, currentEvent, message,
                 jsonBuffers, heap, yielded, entry, lastRead>>

\* lines 66-68
NextOnError ==
  /\ pc = "next"
  /\ err # NoErr
  /\ pc' = "idle"
  /\ ret' = "false"
  /\ UNCHANGED <<source, lines, ended, currentEvent, err, message,
                 jsonBuffers, heap, yielded, entry, lastRead>>

\* the bytes that came with io.EOF are decoded like a terminated line
NextReadEOFDecodesRest ==
  /\ pc = "next"
  /\ err = NoErr
  /\ ended' = TRUE
  /\ lastRead' = "eof"
  /\ \/ /\ CanEnd
        /\ pc' = "idle"
        /\ ret' = "false"
        /\ UNCHANGED <<lines, currentEvent, message, jsonBuffers, heap, yielded>>
     \/ \E line \in ReaderLines :
          /\ ~line.nl
          /\ lines' = Append(lines, line)
          /\ pc' = "idle"
          /\ IF /\ HasPrefix(Trimmed(line), DataPrefix)
                /\ UnmarshalEvent(SliceFrom(Trimmed(line), Len(DataPrefix)),
                                  line.doc, heap).ok
               THEN LET d == UnmarshalEvent(
                               SliceFrom(Trimmed(line), Len(DataPrefix)),
                               line.doc, heap)
                        u == updateMessage(message, jsonBuffers, d.heap, d.event)
                    IN /\ currentEvent' = <<d.event>>
                       /\ message' = u.message
                       /\ jsonBuffers' = u.jsonBuffers
                       /\ heap' = u.heap
                       /\ yielded' = Append(yielded, d.event)
                       /\ ret' = "true"
               ELSE /\ ret' = "false"
                    /\ UNCHANGED <<currentEvent, message, jsonBuffers, heap,
                                   yielded>>
  /\ UNCHANGED <<source, err, entry>>

\* io.EOF is reported like any other read error
NextReadEOFSetsErr ==
  /\ pc = "next"
  /\ err = NoErr
  /\ \/ CanEnd /\ lines' = lines
     \/ \E line \in ReaderLines : ~line.nl /\ lines' = Append(lines, line)
  /\ ended' = TRUE
  /\ lastRead' = "eof"
  /\ err' = ReadErr
  /\ pc' = "idle"
  /\ ret' = "false"
  /\ UNCHANGED <<source, currentEvent, message, jsonBuffers, heap, yielded,
                 entry>>

\* lines 70-74: io.EOF, with or without the bytes of an unterminated line
NextReadEOF ==
  /\ pc = "next"
  /\ err = NoErr
  /\ \/ CanEnd /\ lines' = lines
     \/ \E line \in ReaderLines : ~line.nl /\ lines' = Append(lines, line)
  /\ ended' = TRUE
  /\ lastRead' = "eof"
  /\ pc' = "idle"
  /\ ret' = "false"
  /\ UNCHANGED <<source, currentEvent, err, message, jsonBuffers, heap,
                 yielded, entry>>

\* a read error throws the partial message away
NextReadErrorResets ==
  /\ pc = "next"
  /\ err = NoErr
  /\ CanFail
  /\ err' = ReadErr
  /\ lastRead' = "fail"
  /\ pc' = "idle"
  /\ ret' = "false"
  /\ message' = ZeroMessage
  /\ jsonBuffers' = <<>>
  /\ UNCHANGED <<source, lines, ended, currentEvent, heap, yielded, entry>>

\* lines 75-76
NextReadError ==
  /\ pc = "next"
  /\ err = NoErr
  /\ CanFail
  /\ err' = ReadErr
  /\ lastRead' = "fail"
  /\ pc' = "idle"
  /\ ret' = "false"
  /\ UNCHANGED <<source, lines, ended, currentEvent, message, jsonBuffers,
                 heap, yielded, entry>>

\* lines 79-82
NextSkipBlank ==
  /\ pc = "next"
  /\ err = NoErr
  /\ \E line \in ReaderLines :
       /\ line.nl
       /\ Len(Trimmed(line)) = 0
       /\ lines' = Append(lines, line)
  /\ lastRead' = "line"
  /\ UNCHANGED <<source, ended, pc, ret, currentEvent, err, message,
                 jsonBuffers, heap, yielded, entry>>

\* lines 84-87
NextSkipNoPrefix ==
  /\ pc = "next"
  /\ err = NoErr
  /\ \E line \in ReaderLines :
       /\ line.nl
       /\ Len(Trimmed(line)) # 0
       /\ ~HasPrefix(Trimmed(line), DataPrefix)
       /\ lines' = Append(lines, line)
  /\ lastRead' = "line"
  /\ UNCHANGED <<source, ended, pc, ret, currentEvent, err, message,
                 jsonBuffers, heap, yielded, entry>>

\* data := line[len(prefix):] and its decoding
Decoded(line) ==
  UnmarshalEvent(SliceFrom(Trimmed(line), Len(DataPrefix)), line.doc, heap)

\* a decode error clears the current event
NextDecodeErrorClearsCurrent ==
  /\ pc = "next"
  /\ err = NoErr
  /\ \E line \in ReaderLines :
       /\ line.nl
       /\ Len(Trimmed(line)) # 0
       /\ HasPrefix(Trimmed(line), DataPrefix)
       /\ ~UnmarshalEvent(SliceFrom(Trimmed(line), Len(DataPrefix)),
                          line.doc, heap).ok
       /\ lines' = Append(lines, line)
  /\ err' = ParseErr
  /\ lastRead' = "line"
  /\ pc' = "idle"
  /\ ret' = "false"
  /\ currentEvent' = <<>>
  /\ UNCHANGED <<source, ended, message, jsonBuffers, heap, yielded, entry>>

\* a malformed data line is passed over like a line of another field
NextDecodeErrorSkips ==
  /\ pc = "next"
  /\ err = NoErr
  /\ \E line \in ReaderLines :
       /\ line.nl
       /\ Len(Trimmed(line)) # 0
       /\ HasPrefix(Trimmed(line), DataPrefix)
       /\ ~Decoded(line).ok
       /\ lines' = Append(lines, line)
  /\ lastRead' = "line"
  /\ UNCHANGED <<source, ended, pc, ret, currentEvent, err, message,
                 jsonBuffers, heap, yielded, entry>>

\* lines 89-94
NextDecodeError ==
  /\ pc = "next"
  /\ err = NoErr
  /\ \E line \in ReaderLines :
       /\ line.nl
       /\ Len(Trimmed(line)) # 0
       /\ HasPrefix(Trimmed(line), DataPrefix)
       /\ ~Decoded(line).ok
       /\ lines' = Append(lines, line)
  /\ err' = ParseErr
  /\ lastRead' = "line"
  /\ pc' = "idle"
  /\ ret' = "false"
  /\ UNCHANGED <<source, ended, currentEvent, message, jsonBuffers, heap,
                 yielded, entry>>

\* the event is folded but s.currentEvent is not set
NextYieldKeepsCurrent ==
  /\ pc = "next"
  /\ err = NoErr
  /\ \E line \in ReaderLines :
       /\ line.nl
       /\ Len(Trimmed(line)) # 0
       /\ HasPrefix(Trimmed(line), DataPrefix)
       /\ Decoded(line).ok
       /\ lines' = Append(lines, line)
       /\ LET d == Decoded(line)
              u == updateMessage(message, jsonBuffers, d.heap, d.event)
          IN /\ message' = u.message
             /\ jsonBuffers' = u.jsonBuffers
             /\ heap' = u.heap
             /\ IF u.panic
                  THEN pc' = "panic" /\ ret' = ret /\ yielded' = yielded
                  ELSE /\ pc' = "idle"
                       /\ ret' = "true"
                       /\ yielded' = Append(yielded, d.event)
  /\ lastRead' = "line"
  /\ UNCHANGED <<source, ended, err, entry, currentEvent>>

\* lines 89-99: the event is decoded, stored and folded into the message
NextYield ==
  /\ pc = "next"
  /\ err = NoErr
  /\ \E line \in ReaderLines :
       /\ line.nl
       /\ Len(Trimmed(line)) # 0
       /\ HasPrefix(Trimmed(line), DataPrefix)
       /\ Decoded(line).ok
       /\ lines' = Append(lines, line)
       /\ LET d == Decoded(line)
              u == updateMessage(message, jsonBuffers, d.heap, d.event)
          IN /\ currentEvent' = <<d.event>>
             /\ message' = u.message
             /\ jsonBuffers' = u.jsonBuffers
             /\ heap' = u.heap
             /\ IF u.panic
                  THEN pc' = "panic" /\ ret' = ret /\ yielded' = yielded
                  ELSE /\ pc' = "idle"
                       /\ ret' = "true"
                       /\ yielded' = Append(yielded, d.event)
  /\ lastRead' = "line"
  /\ UNCHANGED <<source, ended, err, entry>>

Next ==
  \/ Call
  \/ NextOnError
  \/ NextReadEOF
  \/ NextReadError
  \/ NextSkipBlank
  \/ NextSkipNoPrefix
  \/ NextDecodeError
  \/ NextYield

Init == InitWith(DecoderSources)

\* lines of every kind: the decoder
Spec == Init /\ [][Next]_vars

InitScenario == InitWith(ScenarioSources \cup NoiseSources)

\* the text scenario, with and without the space after "data:"
SpecScenario == InitScenario /\ [][Next]_vars

InitChunks == InitWith(ChunkSources \cup NoiseSources)

\* tool-use payloads cut into fragments in every way
SpecChunks == InitChunks /\ [][Next]_vars

InitFold == InitWith({FreeSource("fold")})

\* folded events followed by the ways a call returns false
SpecFold == InitFold /\ [][Next]_vars

InitText == InitWith({FreeSource("text")} \cup NoiseSources)

\* text blocks
SpecText == InitText /\ [][Next]_vars

InitThinking == InitWith({FreeSource("thinking")} \cup NoiseSources)

\* thinking blocks
SpecThinking == InitThinking /\ [][Next]_vars

InitIndex == InitWith({FreeSource("index")} \cup NoiseSources)

\* events addressed to indices of every kind
SpecIndex == InitIndex /\ [][Next]_vars

InitTool == InitWith({FreeSource("tool")} \cup NoiseSources)

\* a tool-use block, its fragments and its stops
SpecTool == InitTool /\ [][Next]_vars

InitMixed == InitWith({FreeSource("mixed")} \cup NoiseSources)

\* blocks of several variants and deltas that match them or do not
SpecMixed == InitMixed /\ [][Next]_vars

InitEnvelope == InitWith({FreeSource("envelope")} \cup NoiseSources)

\* message_start, message_delta and message_stop
SpecEnvelope == InitEnvelope /\ [][Next]_vars

InitRestart == InitWith({FreeSource("restart")} \cup NoiseSources)

\* an index started more than once, stopped, and written to after its stop
SpecRestart == InitRestart /\ [][Next]_vars

InitLength == InitWith({FreeSource("length")} \cup NoiseSources)

\* what makes the content longer and what does not
SpecLength == InitLength /\ [][Next]_vars

InitUnknown == InitWith({FreeSource("unknown")} \cup NoiseSources)

\* events and deltas of unrecognised kinds
SpecUnknown == InitUnknown /\ [][Next]_vars

\* a step of a call of Next in progress
Step ==
  \/ NextOnError
  \/ NextReadEOF
  \/ NextReadError
  \/ NextSkipBlank
  \/ NextSkipNoPrefix
  \/ NextDecodeError
  \/ NextYield

\* a call in progress goes on: the program is sequential and ReadBytes
\* returns on a finite stream
Fairness == WF_vars(Step)

\* the decoder, a call in progress going on
FairSpec == Spec /\ Fairness

\* events addressed to indices of every kind, a call in progress going on
FairSpecIndex == SpecIndex /\ Fairness

InitSparse == InitWith({FreeSource("sparse")} \cup NoiseSources)

\* blocks started at indices beyond the content
SpecSparse == InitSparse /\ [][Next]_vars

----------------------------------------------------------------------------
(* What the claims speak of *)

\* the last call of Next has returned false
ReturnedFalse == pc = "idle" /\ ret = "false"

\* a newline-terminated line carrying the data prefix
IsDataLine(line) == line.nl /\ HasPrefix(Trimmed(line), DataPrefix)

\* a data line whose payload decodes
IsEventLine(line) ==
  /\ IsDataLine(line)
  /\ UnmarshalEvent(SliceFrom(Trimmed(line), Len(DataPrefix)), line.doc,
                    <<>>).ok

\* the JSON documents of the data lines read so far, in stream order
WireEvents ==
  LET sel == SelectSeq(lines, IsEventLine)
  IN [i \in 1..Len(sel) |-> sel[i].doc]

\* the lines the last call of Next has read
ReadByCall == SubSeq(lines, entry.nlines + 1, Len(lines))

InSeq(e, seq) == \E i \in 1..Len(seq) : seq[i] = e

Hello == <<"H", "e", "l", "l", "o">>

\* id "m1", role assistant, one text block reading "Hello", stop reason
\* end_turn, usage (5,2)
HelloMessage ==
  /\ message.ID = "m1"
  /\ message.Role = "assistant"
  /\ Len(message.Content) = 1
  /\ message.Content[1].TextContent # Nil
  /\ heap[message.Content[1].TextContent].Text = Hello
  /\ message.StopReason = "end_turn"
  /\ message.Usage = [InputTokens |-> 5, OutputTokens |-> 2]

----------------------------------------------------------------------------
\* C1 as the spec writes it: the six lines "data:<json>", without a space
\* after the colon, read until Next returns false, leave the message with id
\* m1, role assistant, one text block "Hello", stop reason end_turn and
\* usage (5,2).
C1_LinesAsWritten ==
  (source.name = "text-nospace" /\ ReturnedFalse) => HelloMessage

\* C1, amended: the six lines written "data: <json>", with the space after
\* the colon, read until Next returns false, leave the message with id m1,
\* role assistant, one text block "Hello", stop reason end_turn and usage
\* (5,2).
C1_LinesWithSpace ==
  (source.name = "text" /\ ReturnedFalse) => HelloMessage

\* the scenario with the space has been read to its end
C1_Witness ==
  /\ source.name = "text"
  /\ ReturnedFalse
  /\ ended
  /\ Len(yielded) = 6

----------------------------------------------------------------------------
(* Events by index *)

BlockEventTypes ==
  {ContentBlockStartEvent, ContentBlockDeltaEvent, ContentBlockStopEvent}

\* the block events of evs addressed to index idx
BlockEvents(evs, idx) ==
  SelectSeq(evs, LAMBDA e : e.Type \in BlockEventTypes /\ e.Index = <<idx>>)

\* every index sees start, then deltas, then at most one stop, as its last
Lifecycle(evs) ==
  \A n \in 1..Len(evs) :
    evs[n].Index # <<>> =>
      LET b == BlockEvents(evs, evs[n].Index[1]) IN
      \A i \in 1..Len(b) :
        /\ (b[i].Type = ContentBlockStartEvent) <=> (i = 1)
        /\ (b[i].Type = ContentBlockStopEvent) => (i = Len(b))

\* the index has been stopped
Stopped(evs, idx) ==
  \E n \in 1..Len(evs) :
    evs[n].Type = ContentBlockStopEvent /\ evs[n].Index = <<idx>>

\* the deltas of the sub-kind addressed to idx, in event order
DeltasOf(evs, idx, kind) ==
  SelectSeq(evs, LAMBDA e : /\ e.Type = ContentBlockDeltaEvent
                            /\ e.Index = <<idx>>
                            /\ e.Delta # <<>>
                            /\ e.Delta[1].Type = kind)

\* the position in evs of the last start addressed to idx, 0 if none
LastStart(evs, idx) ==
  LET at == {n \in 1..Len(evs) : /\ evs[n].Type = ContentBlockStartEvent
                                 /\ evs[n].Index = <<idx>>
                                 /\ evs[n].ContentBlock # <<>>}
  IN IF at = {} THEN 0 ELSE CHOOSE n \in at : \A k \in at : k <= n

\* the events after the last start addressed to idx
SinceStart(evs, idx) == SubSeq(evs, LastStart(evs, idx) + 1, Len(evs))

RECURSIVE ConcatText(_)
ConcatText(deltas) ==
  IF deltas = <<>> THEN <<>>
  ELSE Head(deltas).Delta[1].Text \o ConcatText(Tail(deltas))

RECURSIVE ConcatThinking(_)
ConcatThinking(deltas) ==
  IF deltas = <<>> THEN <<>>
  ELSE Head(deltas).Delta[1].Thinking \o ConcatThinking(Tail(deltas))

\* the text of the text block at index idx of the message
TextAt(idx) == heap[message.Content[idx + 1].TextContent].Text

TextIndices ==
  {idx \in 0..(Len(message.Content) - 1) :
     message.Content[idx + 1].TextContent # Nil}

----------------------------------------------------------------------------
\* C2 as the spec writes it: over events that obey start -> delta* -> stop
\* per index, the final text of a text block is the concatenation, in event
\* order, of the text_delta fragments addressed to its index.
C2_TextIsDeltas ==
  (pc = "idle" /\ Lifecycle(WireEvents)) =>
    \A idx \in TextIndices :
      Stopped(WireEvents, idx) =>
        TextAt(idx) = ConcatText(DeltasOf(WireEvents, idx, "text_delta"))

\* C2, amended: over events that obey start -> delta* -> stop per index, the
\* text of a text block is the text of its start snapshot followed by the
\* concatenation, in event order, of the text_delta fragments addressed to
\* its index.
C2_TextIsSnapshotThenDeltas ==
  (pc = "idle" /\ Lifecycle(WireEvents)) =>
    \A idx \in TextIndices :
      TextAt(idx) =
        WireEvents[LastStart(WireEvents, idx)].ContentBlock[1].text
          \o ConcatText(DeltasOf(WireEvents, idx, "text_delta"))

\* a block started with a text of its own has taken two deltas and a stop
C2_Witness ==
  /\ pc = "idle"
  /\ Lifecycle(WireEvents)
  /\ 0 \in TextIndices
  /\ Stopped(WireEvents, 0)
  /\ TextAt(0) = <<"H", "b", "a">>

----------------------------------------------------------------------------
\* C3: fragments that concatenate to a valid JSON object leave, after the
\* block's ContentBlockStop, that object as the block's input, however the
\* payload was cut into fragments.
C3_RechunkingInvariance ==
  (source.name = "chunks" /\ pc = "idle"
     /\ Len(yielded) = Len(source.script)) =>
    heap[message.Content[1].ToolUseContent].Input = source.expect

\* C3 on payloads that begin with "{" and end with "}": there the input
\* after the stop is the object, however the payload was cut.
C3_UnpaddedPayloads ==
  source.expect # PayloadSpaced.obj => C3_RechunkingInvariance

\* C3: the payload ending in a newline does give its object when a fragment
\* ends at the closing brace (this state is reachable).
C3_PaddedPayloadParsedOnSomeCut ==
  /\ source.name = "chunks"
  /\ source.expect = PayloadSpaced.obj
  /\ pc = "idle"
  /\ Len(yielded) = Len(source.script)
  /\ heap[message.Content[1].ToolUseContent].Input = source.expect

----------------------------------------------------------------------------
\* C4 as the spec writes it: the call of Next that reads the line
\* "data:{not json" returns false with a decode error in Err(), and that
\* line is the last one read.
C4_NoSpaceLineIsDecodeError ==
  (pc = "idle" /\ InSeq(BadNoSpaceLine, ReadByCall)) =>
    /\ ret = "false"
    /\ err = ParseErr
    /\ lines[Len(lines)] = BadNoSpaceLine

\* C4, amended: once the line "data: {not json" has been read, the call that
\* read it has returned false with a decode error in Err(), no line is read
\* after it and no call returns true again.
C4_MalformedLineIsDecodeError ==
  \A i \in 1..Len(lines) :
    lines[i] = BadLine =>
      /\ i = Len(lines)
      /\ pc # "panic"
      /\ ret = "false"
      /\ err = ParseErr

\* the malformed line was read after an event had been folded
C4_Witness ==
  /\ lines # <<>>
  /\ lines[Len(lines)] = BadLine
  /\ Len(yielded) >= 1
  /\ pc = "idle"

----------------------------------------------------------------------------
\* C5: once an error is set, no step of a later call reads a line, replaces
\* the current event or yields one, every such call returns false and Err()
\* stays the same; and a malformed data line is never passed over: it is
\* the last line read and the error is set.
C5_ErrorsAreSticky ==
  /\ [][err # NoErr =>
          /\ err' = err
          /\ lines' = lines
          /\ lastRead' = lastRead
          /\ currentEvent' = currentEvent
          /\ yielded' = yielded
          /\ ret = "false" /\ ret' = "false"]_vars
  /\ [](\A i \in 1..Len(lines) :
          (IsDataLine(lines[i]) /\ ~IsEventLine(lines[i])) =>
            (i = Len(lines) /\ err = ParseErr))

\* a call made after an error has returned
C5_Witness ==
  /\ err # NoErr
  /\ ReturnedFalse
  /\ entry.nlines = Len(lines)
  /\ lastRead = "line"
  /\ Len(yielded) >= 1

----------------------------------------------------------------------------
\* C6: when the reader reports end of input, Next returns false and Err()
\* is nil, and so it stays on every later call; a read failure other than
\* end of input makes Next return false with Err() set.
C6_EndOfInputIsNoError ==
  /\ ended => (err = NoErr /\ ret = "false" /\ lastRead = "eof")
  /\ lastRead = "fail" => (err # NoErr /\ ret = "false")

\* a call made after the end of input has returned
C6_Witness ==
  /\ ended
  /\ ReturnedFalse
  /\ entry.nlines = Len(lines)
  /\ Len(yielded) >= 1

----------------------------------------------------------------------------
\* C7: whenever Next has returned false, the message, the JSON buffers and
\* the blocks they point to are as they were when that call began.
C7_FalseLeavesAccumulator ==
  ReturnedFalse =>
    /\ message = entry.message
    /\ jsonBuffers = entry.jsonBuffers
    /\ heap = entry.heap

\* a call has failed to decode a line after a message start, a tool-use
\* block and a fragment had been folded
C7_Witness ==
  /\ ReturnedFalse
  /\ err = ParseErr
  /\ message.ID = "m1"
  /\ Len(message.Content) = 1
  /\ BufferAt(jsonBuffers, 0) = <<"{", "}">>
  /\ Len(lines) > entry.nlines

----------------------------------------------------------------------------
\* C8: blank lines and lines without the data prefix are skipped, and while
\* no error has occurred the events of the calls that returned true are the
\* data lines read, in stream order, each once, the last of them being the
\* one Current returns.
C8_YieldsDataLinesInOrder ==
  err = NoErr =>
    /\ Len(yielded) = Len(WireEvents)
    /\ \A i \in 1..Len(yielded) :
         [yielded[i] EXCEPT !.ContentBlock = <<>>]
           = [WireEvents[i] EXCEPT !.ContentBlock = <<>>]
    /\ Len(SelectSeq(lines, IsDataLine)) = Len(WireEvents)
    /\ currentEvent =
         IF yielded = <<>> THEN <<>> ELSE <<yielded[Len(yielded)]>>

\* two different events were yielded around skipped lines
C8_Witness ==
  /\ err = NoErr
  /\ ended
  /\ Len(yielded) = 2
  /\ yielded[1] # yielded[2]
  /\ Len(lines) = 4

----------------------------------------------------------------------------
\* C9: applying a decoded event to the accumulator never panics, whatever
\* the event's kind, its optional fields and its index, a negative index
\* and the index of a block never started included.
C9_AssemblerNeverFails == pc # "panic"

----------------------------------------------------------------------------
(* Thinking blocks *)

ThinkingAt(idx) == heap[message.Content[idx + 1].ThinkingContent]

ThinkingIndices ==
  {idx \in 0..(Len(message.Content) - 1) :
     message.Content[idx + 1].ThinkingContent # Nil}

\* the signature of the last signature_delta in deltas
LastSignature(deltas) == deltas[Len(deltas)].Delta[1].Signature

\* C10: the signature of a thinking block is the value of the last
\* signature_delta applied to its index (that of its start snapshot if there
\* was none), never a concatenation; its thinking text is the snapshot's
\* followed by the thinking_delta fragments in event order.
C10_SignatureIsLast ==
  pc = "idle" =>
    \A idx \in ThinkingIndices :
      LET since == SinceStart(WireEvents, idx)
          start == WireEvents[LastStart(WireEvents, idx)].ContentBlock[1]
          sigs == DeltasOf(since, idx, "signature_delta")
      IN /\ ThinkingAt(idx).Signature =
              IF sigs = <<>> THEN start.signature ELSE LastSignature(sigs)
         /\ ThinkingAt(idx).Thinking =
              start.thinking
                \o ConcatThinking(DeltasOf(since, idx, "thinking_delta"))

\* a block started with a signature has taken two signature deltas
C10_Witness ==
  /\ pc = "idle"
  /\ 0 \in ThinkingIndices
  /\ Len(DeltasOf(SinceStart(WireEvents, 0), 0, "signature_delta")) = 2
  /\ ThinkingAt(0).Signature = <<"y">>
  /\ WireEvents[LastStart(WireEvents, 0)].ContentBlock[1].signature = <<"s">>

----------------------------------------------------------------------------
(* The fold of one event: the last call of Next returned true, so that     *)
(* currentEvent is the event it folded and entry the accumulator before.   *)

Folded == pc = "idle" /\ ret = "true"

\* the event Current returns
Event == currentEvent[1]

\* the JSON document the event was decoded from
EventDoc == WireEvents[Len(WireEvents)]

\* the event is of the type and carries an index
FoldedAt(type) == Folded /\ Event.Type = type /\ Event.Index # <<>>

\* the typed block a content block points to, Nil if it is a placeholder
VariantOf(block) ==
  LET set == {block.TextContent, block.ImageContent, block.ToolUseContent,
              block.ToolResultContent, block.ThinkingContent,
              block.RedactedThinkingContent} \ {Nil}
  IN IF set = {} THEN Nil ELSE CHOOSE a \in set : TRUE

\* the blocks the accumulator pointed to before the call are as they were
OldBlocksUnchanged ==
  \A a \in 1..Len(entry.heap) : heap[a] = entry.heap[a]

----------------------------------------------------------------------------
\* C11: after a ContentBlockStart at index i folded when fewer than i+1
\* blocks exist, the content has i+1 blocks (at least i+1), every index
\* created below i is an empty placeholder, index i holds the block snapshot
\* of the event, with the fields its JSON document gave, and the blocks that
\* existed before are unchanged.
C11_SparseGrowthOnStart ==
  (/\ FoldedAt(ContentBlockStartEvent)
   /\ Event.ContentBlock # <<>>
   /\ 0 <= Event.Index[1]
   /\ Len(entry.message.Content) < Event.Index[1] + 1) =>
    LET i == Event.Index[1]
        old == Len(entry.message.Content)
    IN /\ Len(message.Content) >= i + 1
       /\ Len(message.Content) = i + 1
       /\ \A k \in (old + 1)..i : message.Content[k] = EmptyBlock
       /\ message.Content[i + 1] = Event.ContentBlock[1]
       /\ VariantOf(message.Content[i + 1]) # Nil
       /\ heap[VariantOf(message.Content[i + 1])]
            = TypedBlock(EventDoc.ContentBlock[1])
       /\ \A k \in 1..old : message.Content[k] = entry.message.Content[k]
       /\ OldBlocksUnchanged

\* a tool-use block was started at index 2 over a content of one block:
\* index 1 is a placeholder made by this start
C11_Witness ==
  /\ FoldedAt(ContentBlockStartEvent)
  /\ Event.Index = <<2>>
  /\ Len(entry.message.Content) = 1
  /\ entry.message.Content[1].TextContent # Nil
  /\ Len(message.Content) = 3
  /\ message.Content[2] = EmptyBlock
  /\ message.Content[3].ToolUseContent # Nil

----------------------------------------------------------------------------
(* Tool-use blocks *)

\* the index addresses a tool-use block of the content c
IsToolUseAt(c, idx) ==
  idx \in 0..(Len(c) - 1) /\ c[idx + 1].ToolUseContent # Nil

\* the structured input of the tool-use block at idx, in the heap h
InputAt(h, idx) == h[message.Content[idx + 1].ToolUseContent].Input

\* the text begins with "{" and ends with "}"
Braced(text) == HasPrefix(text, <<"{">>) /\ HasSuffix(text, <<"}">>)

\* the text is the JSON text of an object
IsObjectText(text) == JSONUnmarshalMap(text).ok

\* the object a JSON text denotes
ObjectOf(text) == JSONUnmarshalMap(text).val

\* the stops at the end of the events yielded
RECURSIVE TrailingStops(_)
TrailingStops(evs) ==
  IF evs # <<>> /\ evs[Len(evs)].Type = ContentBlockStopEvent
    THEN 1 + TrailingStops(SubSeq(evs, 1, Len(evs) - 1))
    ELSE 0

----------------------------------------------------------------------------
\* C12: a ContentBlockStop at a tool-use index, the first or a repeated one,
\* leaves the structured input of the block equal to the value it had
\* before the stop; when the buffer of the index parsed on the last
\* input_json_delta (it begins with "{", ends with "}" and is the text of
\* an object), that value is the object the buffer denotes.
C12_FinalParseIsIdempotent ==
  (/\ FoldedAt(ContentBlockStopEvent)
   /\ IsToolUseAt(entry.message.Content, Event.Index[1])) =>
    LET idx == Event.Index[1]
        buffer == BufferAt(entry.jsonBuffers, idx)
    IN /\ InputAt(heap, idx) = InputAt(entry.heap, idx)
       /\ message = entry.message
       /\ jsonBuffers = entry.jsonBuffers
       /\ (Braced(buffer) /\ IsObjectText(buffer)) =>
            InputAt(heap, idx) = ObjectOf(buffer)

\* the stop was repeated after a delta whose buffer parsed to {"a":1}
C12_Witness ==
  /\ FoldedAt(ContentBlockStopEvent)
  /\ IsToolUseAt(message.Content, 0)
  /\ Event.Index = <<0>>
  /\ TrailingStops(yielded) = 2
  /\ Len(yielded) = 4
  /\ yielded[2].Type = ContentBlockDeltaEvent
  /\ BufferAt(jsonBuffers, 0) = TextA1
  /\ InputAt(heap, 0) = JObj(<<"a">> :> JNum(1))

----------------------------------------------------------------------------
(* The parse an input_json_delta attempts *)

\* an input_json_delta has been folded into a tool-use block
FoldedJSONDelta ==
  /\ FoldedAt(ContentBlockDeltaEvent)
  /\ Event.Delta # <<>>
  /\ Event.Delta[1].Type = "input_json_delta"
  /\ IsToolUseAt(entry.message.Content, Event.Index[1])

\* C20: after an input_json_delta at a tool-use index, if the buffer with
\* the white space around it trimmed begins with "{" and ends with "}" and
\* the buffer is the JSON text of an object, the structured input of the
\* block is that object.
C20_TrimmedBufferParsed ==
  FoldedJSONDelta =>
    LET idx == Event.Index[1]
        buffer == BufferAt(jsonBuffers, idx)
    IN (Braced(TrimSpace(buffer)) /\ IsObjectText(buffer)) =>
         InputAt(heap, idx) = ObjectOf(buffer)

\* C20 with the buffer taken as it is: if the buffer itself begins with "{"
\* and ends with "}" and is the JSON text of an object, the structured
\* input is that object; otherwise the input is the one before the delta.
C20_UntrimmedBufferParsed ==
  FoldedJSONDelta =>
    LET idx == Event.Index[1]
        buffer == BufferAt(jsonBuffers, idx)
    IN /\ buffer = BufferAt(entry.jsonBuffers, idx) \o Event.Delta[1].PartialJSON
       /\ InputAt(heap, idx) =
            IF Braced(buffer) /\ IsObjectText(buffer)
              THEN ObjectOf(buffer)
              ELSE InputAt(entry.heap, idx)

\* C20: the input was replaced on two deltas of one index (this state is
\* reachable: the second fragment is empty).
C20_ReplacedTwice ==
  /\ FoldedJSONDelta
  /\ Len(yielded) = 3
  /\ yielded[1].Type = ContentBlockStartEvent
  /\ yielded[2].Delta # <<>> /\ yielded[2].Delta[1].PartialJSON = TextA1
  /\ yielded[3].Delta[1].PartialJSON = <<>>
  /\ InputAt(heap, 0) = JObj(<<"a">> :> JNum(1))

\* C20: a buffer that is the text of an object after white space has left
\* the input as the start gave it (this state is reachable).
C20_PaddedBufferNotParsed ==
  /\ FoldedJSONDelta
  /\ BufferAt(jsonBuffers, 0) = <<"\n">> \o TextA1
  /\ InputAt(heap, 0) = JObj(<<>>)

----------------------------------------------------------------------------
(* Deltas and the variant of the block they meet *)

\* the delta's sub-kind is one of the four and the block is not of the
\* variant it is for; a placeholder matches no sub-kind
Mismatch(delta, block) ==
  \/ delta.Type = "text_delta" /\ block.TextContent = Nil
  \/ delta.Type = "input_json_delta" /\ block.ToolUseContent = Nil
  \/ delta.Type = "thinking_delta" /\ block.ThinkingContent = Nil
  \/ delta.Type = "signature_delta" /\ block.ThinkingContent = Nil

\* a delta has been folded whose index lies within the content
FoldedDeltaWithin ==
  /\ FoldedAt(ContentBlockDeltaEvent)
  /\ Event.Delta # <<>>
  /\ Event.Index[1] \in 0..(Len(entry.message.Content) - 1)

\* the block the delta met
BlockMet == entry.message.Content[Event.Index[1] + 1]

\* C13: a delta whose sub-kind does not match the variant of the block at
\* its index (a placeholder matches none) leaves the message, every typed
\* block and every JSON buffer unchanged, and Next returns true with no
\* error set.
C13_TolerantMerge ==
  (FoldedDeltaWithin /\ Mismatch(Event.Delta[1], BlockMet)) =>
    /\ message = entry.message
    /\ jsonBuffers = entry.jsonBuffers
    /\ heap = entry.heap
    /\ err = NoErr

\* a fragment of JSON met a text block while index 1 held a tool-use block
\* with a buffer of its own
C13_Witness ==
  /\ FoldedDeltaWithin
  /\ Event.Delta[1].Type = "input_json_delta"
  /\ BlockMet.TextContent # Nil
  /\ IsToolUseAt(message.Content, 1)
  /\ BufferAt(jsonBuffers, 1) = <<"{">>
  /\ 0 \notin DOMAIN jsonBuffers

----------------------------------------------------------------------------
(* The variants of a block *)

Variants ==
  {"TextContent", "ImageContent", "ToolUseContent", "ToolResultContent",
   "ThinkingContent", "RedactedThinkingContent"}

\* the variants of the block that are populated
Populated(block) == {f \in Variants : block[f] # Nil}

----------------------------------------------------------------------------
(* Deltas and stops addressed beyond the content *)

\* a delta or a stop has been folded whose index is at or beyond the length
\* the content had
FoldedBeyondContent ==
  /\ \/ FoldedAt(ContentBlockDeltaEvent) /\ Event.Delta # <<>>
     \/ FoldedAt(ContentBlockStopEvent)
  /\ Event.Index[1] >= Len(entry.message.Content)

\* C14 as the spec writes it: a ContentBlockDelta or ContentBlockStop whose
\* index is at or beyond the length of the content grows the content with
\* placeholders so that the index is addressable.
C14_GrowsBeyondContent ==
  FoldedBeyondContent => Len(message.Content) >= Event.Index[1] + 1

\* C14, amended: a ContentBlockDelta or ContentBlockStop whose index is at
\* or beyond the length of the content is ignored: the content keeps its
\* length, the message, the typed blocks and the JSON buffers are
\* unchanged, and Next returns true with no error set.
C14_IgnoredBeyondContent ==
  FoldedBeyondContent =>
    /\ Len(message.Content) = Len(entry.message.Content)
    /\ message = entry.message
    /\ jsonBuffers = entry.jsonBuffers
    /\ heap = entry.heap
    /\ err = NoErr

\* a stop was addressed to index 2 of a content of two blocks
C14_Witness ==
  /\ FoldedAt(ContentBlockStopEvent)
  /\ Event.Index = <<2>>
  /\ Len(entry.message.Content) = 2
  /\ Len(message.Content) = 2

----------------------------------------------------------------------------
(* The events that open and close a message *)

\* a ContentBlockStart with a block and an index was folded before the call
StartedBefore ==
  \E n \in 1..(Len(yielded) - 1) :
    /\ yielded[n].Type = ContentBlockStartEvent
    /\ yielded[n].ContentBlock # <<>>
    /\ yielded[n].Index # <<>>

\* a MessageStart carrying a message has been folded
FoldedMessageStart ==
  Folded /\ Event.Type = MessageStartEvent /\ Event.Message # <<>>

\* the identifier, the role and the model are those of the embedded message
CopiedFromEmbedded ==
  /\ message.ID = Event.Message[1].ID
  /\ message.Role = Event.Message[1].Role
  /\ message.Model = Event.Message[1].Model

\* C17 as the spec writes it: after a MessageStart that carries a message,
\* id, role and model are those of the embedded message and the content of
\* the accumulator is empty.
C17_ContentEmptyAfterStart ==
  FoldedMessageStart => (CopiedFromEmbedded /\ message.Content = <<>>)

\* C17, amended: after a MessageStart that carries a message, id, role and
\* model are those of the embedded message and the content, the stop
\* reason, the usage, the typed blocks and the buffers are as they were
\* before the event; the content is empty when no ContentBlockStart was
\* folded before it, whatever content the embedded message holds.
C17_ContentLeftByStart ==
  FoldedMessageStart =>
    /\ CopiedFromEmbedded
    /\ message.Content = entry.message.Content
    /\ message.StopReason = entry.message.StopReason
    /\ message.Usage = entry.message.Usage
    /\ jsonBuffers = entry.jsonBuffers
    /\ heap = entry.heap
    /\ ~StartedBefore => message.Content = <<>>

\* the message m2, whose embedded content holds a block, was started over
\* the message m1, no block having been started
C17_Witness ==
  /\ FoldedMessageStart
  /\ entry.message.ID = "m1"
  /\ entry.message.Role = "assistant"
  /\ message.ID = "m2"
  /\ message.Role = "user"
  /\ message.Model = "claude"
  /\ Event.Message[1].Content # <<>>
  /\ ~StartedBefore
  /\ message.Content = <<>>

----------------------------------------------------------------------------
\* C18: after a MessageStop the stop reason and the usage of the
\* accumulator are those of the event; a field the event does not carry
\* keeps the value it had, and id, role, model, content, typed blocks and
\* buffers are as they were before the event.
C18_StopCopiesReasonAndUsage ==
  (Folded /\ Event.Type = MessageStopEvent) =>
    /\ message.StopReason =
         IF Event.StopReason # <<>> THEN Event.StopReason[1]
                                    ELSE entry.message.StopReason
    /\ message.Usage =
         IF Event.Usage # <<>> THEN Event.Usage[1] ELSE entry.message.Usage
    /\ message.ID = entry.message.ID
    /\ message.Role = entry.message.Role
    /\ message.Model = entry.message.Model
    /\ message.Content = entry.message.Content
    /\ jsonBuffers = entry.jsonBuffers
    /\ heap = entry.heap

\* a stop without a stop reason was folded after one that carried a stop
\* reason and a usage: the reason is kept, the usage replaced
C18_Witness ==
  /\ Folded
  /\ Event.Type = MessageStopEvent
  /\ Event.StopReason = <<>>
  /\ entry.message.StopReason = "end_turn"
  /\ entry.message.Usage = Tokens(5, 2)
  /\ message.StopReason = "end_turn"
  /\ message.Usage = Tokens(1, 1)

----------------------------------------------------------------------------
\* C19: a MessageDelta changes nothing in the accumulator: id, role,
\* model, content, stop reason, usage, typed blocks and JSON buffers are
\* after it as before, also when the event carries a stop reason or a usage.
C19_MessageDeltaChangesNothing ==
  (Folded /\ Event.Type = MessageDeltaEvent) =>
    /\ message = entry.message
    /\ jsonBuffers = entry.jsonBuffers
    /\ heap = entry.heap

\* a MessageDelta carrying a stop reason and a usage was folded into a
\* message that has an identifier, a tool-use block and a buffer
C19_Witness ==
  /\ Folded
  /\ Event.Type = MessageDeltaEvent
  /\ Event.StopReason = <<"tool_use">>
  /\ Event.Usage = <<Tokens(3, 4)>>
  /\ message.ID = "m1"
  /\ IsToolUseAt(message.Content, 0)
  /\ BufferAt(jsonBuffers, 0) = <<"{", "}">>
  /\ message.StopReason = ""

----------------------------------------------------------------------------
(* The events handed to the caller.  A yielded event holds the pointers of *)
(* its content block; what they point to is in the heap.                   *)

\* the typed block the n-th yielded event points to
YieldedBlock(n) == heap[VariantOf(yielded[n].ContentBlock[1])]

\* the n-th yielded event carries a block of a known type
CarriesBlock(n) ==
  /\ yielded[n].ContentBlock # <<>>
  /\ VariantOf(yielded[n].ContentBlock[1]) # Nil

\* C15: the contents of an event returned by Current are never changed by
\* later calls of Next: the typed block a yielded event points to holds the
\* text, thinking, signature and structured input its JSON document gave.
C15_EventsAreImmutable ==
  \A n \in 1..Len(yielded) :
    CarriesBlock(n) => YieldedBlock(n) = TypedBlock(WireEvents[n].ContentBlock[1])

\* C15: the fields of a yielded event other than what its block points to
\* are those of its JSON document (this much of the claim holds).
C15_EventFieldsKept ==
  \A n \in 1..Len(yielded) :
    [yielded[n] EXCEPT !.ContentBlock = <<>>]
      = [WireEvents[n] EXCEPT !.ContentBlock = <<>>]

----------------------------------------------------------------------------
\* C21: an input_json_delta after which the buffer does not begin with "{"
\* and end with "}", or is not the JSON text of an object, leaves the
\* structured input of the tool-use block as it was before the delta (the
\* input of the start snapshot or the last object parsed) and every other
\* field of every typed block too, while the buffer has grown by the
\* fragment.
C21_FailedParseKeepsInput ==
  FoldedJSONDelta =>
    LET idx == Event.Index[1]
        buffer == BufferAt(jsonBuffers, idx)
    IN (~Braced(buffer) \/ ~IsObjectText(buffer)) =>
         /\ InputAt(heap, idx) = InputAt(entry.heap, idx)
         /\ heap = entry.heap
         /\ buffer =
              BufferAt(entry.jsonBuffers, idx) \o Event.Delta[1].PartialJSON
         /\ message = entry.message

\* the fragment "}" came after the buffer had parsed to {"a":1}: the buffer
\* has braces at both ends, does not parse, and the input is still {"a":1}
C21_Witness ==
  /\ FoldedJSONDelta
  /\ Event.Delta[1].PartialJSON = <<"}">>
  /\ BufferAt(jsonBuffers, 0) = TextA1 \o <<"}">>
  /\ Braced(BufferAt(jsonBuffers, 0))
  /\ InputAt(heap, 0) = JObj(<<"a">> :> JNum(1))

----------------------------------------------------------------------------
(* The JSON buffers *)

RECURSIVE ConcatJSON(_)
ConcatJSON(deltas) ==
  IF deltas = <<>> THEN <<>>
  ELSE Head(deltas).Delta[1].PartialJSON \o ConcatJSON(Tail(deltas))

\* the JSON object of the block the last start addressed to idx carried
LastStartBlock(idx) == WireEvents[LastStart(WireEvents, idx)].ContentBlock[1]

\* the indices whose last start carried a tool-use block
ToolStarted ==
  {idx \in 0..(Len(message.Content) - 1) :
     /\ LastStart(WireEvents, idx) > 0
     /\ LastStartBlock(idx).type = "tool_use"}

\* a start carrying a tool-use block was folded before the current one at
\* the index, and fragments had gathered in the buffer
RestartedOverFragments ==
  /\ FoldedAt(ContentBlockStartEvent)
  /\ IsToolUseAt(entry.message.Content, Event.Index[1])
  /\ BufferAt(entry.jsonBuffers, Event.Index[1]) # <<>>

\* C22: after a ContentBlockStart carrying a tool-use block at index i the
\* JSON buffer of i is empty, also when i was started before and fragments
\* had gathered; from then on the buffer holds the fragments received
\* since that start and no earlier one.
C22_BufferResetOnStart ==
  /\ (/\ FoldedAt(ContentBlockStartEvent)
      /\ Event.ContentBlock # <<>>
      /\ Event.ContentBlock[1].ToolUseContent # Nil) =>
       /\ Event.Index[1] \in DOMAIN jsonBuffers
       /\ jsonBuffers[Event.Index[1]] = <<>>
  /\ pc = "idle" =>
       \A idx \in ToolStarted :
         BufferAt(jsonBuffers, idx) =
           ConcatJSON(DeltasOf(SinceStart(WireEvents, idx), idx,
                               "input_json_delta"))

\* a tool-use block was started at index 0 over a tool-use block whose
\* buffer held "{"
C22_Witness ==
  /\ RestartedOverFragments
  /\ Event.Index = <<0>>
  /\ Event.ContentBlock[1].ToolUseContent # Nil
  /\ BufferAt(entry.jsonBuffers, 0) = <<"{">>
  /\ jsonBuffers[0] = <<>>

----------------------------------------------------------------------------
\* the starts folded so far that carried a block, addressed to idx
StartsAt(idx) ==
  SelectSeq(WireEvents, LAMBDA e : /\ e.Type = ContentBlockStartEvent
                                   /\ e.Index = <<idx>>
                                   /\ e.ContentBlock # <<>>)

\* C23 as the spec writes it: in every reachable state the buffer mapping
\* holds an entry for index i only if the block now stored at index i of
\* the content is a tool-use block.
C23_BufferOnlyForToolUse ==
  \A idx \in DOMAIN jsonBuffers : IsToolUseAt(message.Content, idx)

\* C23, amended: the buffer mapping holds an entry for index i only if a
\* ContentBlockStart carrying a tool-use block was folded at i; the block
\* now stored at i is a tool-use block when the last start at i carried
\* one, and so whenever i was started once only.
C23_BufferOnlyForToolStarted ==
  pc = "idle" =>
    \A idx \in DOMAIN jsonBuffers :
      /\ idx \in 0..(Len(message.Content) - 1)
      /\ \E n \in 1..Len(StartsAt(idx)) :
           StartsAt(idx)[n].ContentBlock[1].type = "tool_use"
      /\ idx \in ToolStarted => IsToolUseAt(message.Content, idx)
      /\ Len(StartsAt(idx)) = 1 => IsToolUseAt(message.Content, idx)

\* index 0 holds a text block and the buffer of the tool-use block started
\* there before, next to a tool-use block started once at index 1
C23_Witness ==
  /\ pc = "idle"
  /\ DOMAIN jsonBuffers = {0, 1}
  /\ jsonBuffers[0] = <<"{">>
  /\ message.Content[1].TextContent # Nil
  /\ IsToolUseAt(message.Content, 1)
  /\ Len(StartsAt(1)) = 1

----------------------------------------------------------------------------
\* a ContentBlockStop has been folded
FoldedStop == Folded /\ Event.Type = ContentBlockStopEvent

\* the stop was addressed to a tool-use block
StopMetToolUse ==
  Event.Index # <<>> /\ IsToolUseAt(entry.message.Content, Event.Index[1])

\* C24: a ContentBlockStop leaves the message and the JSON buffers as they
\* were, the buffer of its index not cleared; of the typed blocks it can
\* change the structured input of the tool-use block at its index only,
\* to the object the buffer denotes when the buffer begins with "{", ends
\* with "}" and parses; a stop at a block of another variant, at an index
\* never started or without an index changes nothing.
C24_StopFrame ==
  FoldedStop =>
    /\ message = entry.message
    /\ jsonBuffers = entry.jsonBuffers
    /\ Len(heap) = Len(entry.heap)
    /\ ~StopMetToolUse => heap = entry.heap
    /\ StopMetToolUse =>
         LET idx == Event.Index[1]
             addr == message.Content[idx + 1].ToolUseContent
             buffer == BufferAt(jsonBuffers, idx)
         IN /\ \A a \in 1..Len(heap) : a # addr => heap[a] = entry.heap[a]
            /\ [heap[addr] EXCEPT !.Input = JNil]
                 = [entry.heap[addr] EXCEPT !.Input = JNil]
            /\ heap[addr].Input =
                 IF Braced(buffer) /\ IsObjectText(buffer)
                   THEN ObjectOf(buffer)
                   ELSE entry.heap[addr].Input

\* a stop met the tool-use block at index 0 whose buffer "{}" parses, next
\* to the tool-use block at index 1: the buffer is still "{}"
C24_Witness ==
  /\ FoldedStop
  /\ StopMetToolUse
  /\ Event.Index = <<0>>
  /\ BufferAt(jsonBuffers, 0) = <<"{", "}">>
  /\ InputAt(heap, 0) = JObj(<<>>)

----------------------------------------------------------------------------
\* the indices whose last start carried a text block
TextStarted ==
  {idx \in 0..(Len(message.Content) - 1) :
     /\ LastStart(WireEvents, idx) > 0
     /\ LastStartBlock(idx).type = "text"}

\* a delta has been folded at an index that a stop was addressed to after
\* the index was last started
FoldedDeltaAfterStop ==
  /\ FoldedAt(ContentBlockDeltaEvent)
  /\ Stopped(SinceStart(WireEvents, Event.Index[1]), Event.Index[1])

\* C25: a ContentBlockStop does not close its index: the block stays of the
\* variant it was started with, and a delta that arrives after the stop is
\* folded as one before it: the text of a text block is the text of its
\* start followed by every text_delta since that start, the buffer of a
\* tool-use block every input_json_delta fragment since its start, stops
\* in between or not; the call that reads the delta returns true.
C25_StopDoesNotClose ==
  pc = "idle" =>
    /\ \A idx \in TextStarted :
         /\ message.Content[idx + 1].TextContent # Nil
         /\ TextAt(idx) =
              LastStartBlock(idx).text
                \o ConcatText(DeltasOf(SinceStart(WireEvents, idx), idx,
                                        "text_delta"))
    /\ \A idx \in ToolStarted :
         /\ IsToolUseAt(message.Content, idx)
         /\ jsonBuffers[idx] =
              ConcatJSON(DeltasOf(SinceStart(WireEvents, idx), idx,
                                  "input_json_delta"))
    /\ (lastRead = "line" /\ IsEventLine(lines[Len(lines)]) /\ err = NoErr) =>
         (ret = "true" /\ Len(yielded) = Len(WireEvents))

\* the text block at index 0 took the fragment "a" after its stop
C25_Witness ==
  /\ FoldedDeltaAfterStop
  /\ Event.Index = <<0>>
  /\ Event.Delta # <<>>
  /\ Event.Delta[1].Type = "text_delta"
  /\ 0 \in TextStarted
  /\ TextAt(0) = <<"H", "a">>

----------------------------------------------------------------------------
(* The length of the content *)

\* the event is a ContentBlockStart that carries a block and an index: the
\* starts that updateMessage folds (a start that lacks either is passed
\* over)
IsFoldedStart(e) ==
  /\ e.Type = ContentBlockStartEvent
  /\ e.ContentBlock # <<>>
  /\ e.Index # <<>>

\* the indices of the starts folded so far
StartedIndices ==
  {yielded[n].Index[1] : n \in {k \in 1..Len(yielded) : IsFoldedStart(yielded[k])}}

\* one plus the highest index started, zero if none was
ExpectedLength ==
  IF StartedIndices = {} THEN 0
  ELSE 1 + (CHOOSE i \in StartedIndices : \A j \in StartedIndices : j <= i)

\* C26: in every reachable state the length of the content is one plus the
\* highest index of the ContentBlockStarts folded so far (those carrying a
\* block and an index), zero if there was none; the content is never
\* shorter than when the call began, and an event that is not such a start
\* leaves its length as it was.
C26_LengthIsHighestStart ==
  /\ Len(message.Content) = ExpectedLength
  /\ Len(message.Content) >= Len(entry.message.Content)
  /\ (Folded /\ ~IsFoldedStart(Event)) =>
       Len(message.Content) = Len(entry.message.Content)

\* after starts at 2 and then 0, a start with an index of 3 and no block
\* and a delta addressed to 4, the content has three blocks
C26_Witness ==
  /\ Folded
  /\ Len(yielded) = 4
  /\ StartedIndices = {0, 2}
  /\ yielded[1].Index = <<2>>
  /\ \E n \in 1..4 : yielded[n].Type = ContentBlockStartEvent
                       /\ yielded[n].Index = <<3>>
  /\ Event.Type = ContentBlockDeltaEvent
  /\ Event.Index = <<4>>
  /\ Len(message.Content) = 3

----------------------------------------------------------------------------
\* the bytes of the line carry the data prefix and a payload that decodes
CarriesEvent(line) ==
  /\ HasPrefix(Trimmed(line), DataPrefix)
  /\ UnmarshalEvent(SliceFrom(Trimmed(line), Len(DataPrefix)), line.doc,
                    <<>>).ok

\* the number of lines read whose bytes carry an event, terminated or not
EventsSent == Len(SelectSeq(lines, CarriesEvent))

\* C27: a data line at the end of the stream that lacks its newline is
\* never decoded: it is the last line read, the call that read it returned
\* false with Err() nil, the message, the buffers and the typed blocks are
\* as they were when that call began, and the event of the line is
\* yielded by no call.
C27_UnterminatedLineIsLost ==
  \A i \in 1..Len(lines) :
    (~lines[i].nl /\ CarriesEvent(lines[i])) =>
      /\ i = Len(lines)
      /\ ended
      /\ lastRead = "eof"
      /\ ret = "false"
      /\ err = NoErr
      /\ message = entry.message
      /\ jsonBuffers = entry.jsonBuffers
      /\ heap = entry.heap
      /\ Len(yielded) = EventsSent - 1
      /\ currentEvent =
           IF yielded = <<>> THEN <<>> ELSE <<yielded[Len(yielded)]>>

\* the stream ended in an unterminated fragment "{}" for a tool-use block
\* whose buffer held "{}": the buffer is still "{}"
C27_Witness ==
  /\ lines # <<>>
  /\ ~lines[Len(lines)].nl
  /\ CarriesEvent(lines[Len(lines)])
  /\ ReturnedFalse
  /\ Len(ReadByCall) = 1
  /\ IsToolUseAt(message.Content, 0)
  /\ BufferAt(jsonBuffers, 0) = <<"{", "}">>
  /\ Len(yielded) = 2

----------------------------------------------------------------------------
\* what Current returns: nil, or the event of the last call that returned
\* true
LastYielded == IF yielded = <<>> THEN <<>> ELSE <<yielded[Len(yielded)]>>

\* C28: Current returns nil until a call of Next has returned true, and
\* from then on the event of the last call that returned true, also after
\* calls that returned false at the end of input, on a read error or on a
\* decode error, and after calls made once the error is set.
C28_CurrentIsLastYielded ==
  /\ pc # "panic" => currentEvent = LastYielded
  /\ ReturnedFalse => currentEvent = LastYielded

\* a call returned false on a decode error after two events were yielded:
\* Current is still the second
C28_Witness ==
  /\ ReturnedFalse
  /\ err = ParseErr
  /\ Len(yielded) = 2
  /\ yielded[1] # yielded[2]
  /\ currentEvent = <<yielded[2]>>

----------------------------------------------------------------------------
(* Events of kinds the stream does not know *)

EventTypes ==
  {MessageStartEvent, ContentBlockStartEvent, ContentBlockDeltaEvent,
   ContentBlockStopEvent, MessageDeltaEvent, MessageStopEvent}

DeltaTypes ==
  {"text_delta", "input_json_delta", "thinking_delta", "signature_delta"}

\* the event is of an unrecognised kind, or a ContentBlockDelta of an
\* unrecognised sub-kind
Unrecognised(e) ==
  \/ e.Type \notin EventTypes
  \/ /\ e.Type = ContentBlockDeltaEvent
     /\ e.Delta # <<>>
     /\ e.Delta[1].Type \notin DeltaTypes

\* C29: a data line that decodes to an event of an unrecognised kind, or
\* to a ContentBlockDelta of an unrecognised sub-kind, is yielded like any
\* other: the call that reads it returns true with Err() nil and the event
\* as Current, and the message, the typed blocks and the JSON buffers are
\* as they were.
C29_UnrecognisedEventsPassThrough ==
  /\ (lastRead = "line" /\ IsEventLine(lines[Len(lines)])
        /\ Unrecognised(lines[Len(lines)].doc)) =>
       /\ pc # "panic"
       /\ ret = "true"
       /\ err = NoErr
       /\ currentEvent = <<lines[Len(lines)].doc>>
       /\ yielded[Len(yielded)] = lines[Len(lines)].doc
  /\ (Folded /\ Unrecognised(Event)) =>
       /\ message = entry.message
       /\ jsonBuffers = entry.jsonBuffers
       /\ heap = entry.heap

\* a delta of an unrecognised sub-kind addressed to the tool-use block at
\* index 0 was yielded after an event of the kind "error"
C29_Witness ==
  /\ Folded
  /\ Event.Type = ContentBlockDeltaEvent
  /\ Event.Index = <<0>>
  /\ Event.Delta[1].Type = "citations_delta"
  /\ Len(yielded) = 4
  /\ yielded[3].Type = "error"
  /\ IsToolUseAt(message.Content, 0)
  /\ BufferAt(jsonBuffers, 0) = <<"{", "}">>

----------------------------------------------------------------------------
\* C30: every call of Next on a finite stream terminates, returning true
\* or false, however many blank or non-data lines come before the next
\* data line or the end of input.
C30_EveryCallReturns == (pc = "next") ~> (pc = "idle")

\* C30: a call that does not return has panicked while folding an event
\* (this much of the claim holds, under FairSpec and FairSpecIndex).
C30_ReturnsUnlessPanic == (pc = "next") ~> (pc \in {"idle", "panic"})

\* C30: a call has returned true after skipping three lines (this state is
\* reachable under FairSpec).
C30_ReturnedAfterSkips ==
  /\ Folded
  /\ Len(ReadByCall) = 4
  /\ \A i \in 1..3 : ~IsDataLine(ReadByCall[i])

====
